---- MODULE Spec2Model ----
(***************************************************************************)
(* Model of the messaging application of alx-backend-python                *)
(* (Django-signals_orm-0x04/messaging and messaging): the relational rows  *)
(* Message, Notification and MessageHistory, the in-memory model instances *)
(* that Message.save() compares with the stored rows, the pre_save /       *)
(* post_save / post_delete signal handlers, the unread-messages manager    *)
(* and the views that answer HTTP requests; the page cache in front of     *)
(* the cached views (messaging/views.py); the participants of the          *)
(* conversations of messaging_app/chats; and the decorators of             *)
(* python-decorators-0x01.                                                 *)
(*                                                                         *)
(* A subject is a sequence of tokens: <<"Re", "A">> is the text "Re: A".   *)
(* Timestamps are abstracted to NoTime (NULL) and Now (a value written by  *)
(* timezone.now()).  A NULL foreign key is 0; primary keys start at 1 and  *)
(* are never reused.                                                       *)
(***************************************************************************)
EXTENDS Integers, Sequences, FiniteSets, TLC

\* ---------------------------------------------------------------- bounds
MaxMsgs == 3
MaxSteps == 4
MaxWebSteps == 4
MaxThread == 4
MaxPageSteps == 4
MaxClock == 125
MaxChatSteps == 3
MaxRetries == 2
MaxCalls == 3
MaxStored == 2

\* cache_page(60)
CacheTimeout == 60

\* time.sleep(1) at the start of every cached view
ViewDelay == 1

Users == {"u1", "u2"}
Handles == {"h1", "h2"}
Subjects == {<<"A">>, <<"B">>}
Contents == {"x", "y"}

\* The session cookies of the logged-in clients and their users; a request
\* without a session carries no cookie.
SessionCookies == {"sid1", "sid2"}

SessionUser == [c \in SessionCookies |-> IF c = "sid1" THEN "u1" ELSE "u2"]

NoCookie == ""

\* The users and conversations of the chats application, by primary key;
\* UnknownId is a well-formed id (a UUID) that no user has, MalformedId is a
\* string that is not a UUID, and a request without a user_id carries NoId.
ChatUsers == {"a", "b", "c"}

Convs == {"k1", "k2"}

UnknownId == "z"

NoId == ""

MalformedId == "not-a-uuid"

\* No remove_participant request is being processed.
NoRemovals == << >>

\* The record of a decorated call before any call.
NoOut == [decorator |-> "none"]

\* The requests to the cached views that can be inside a view body at a
\* time, one for a worker; NoPage is a worker without a request.
PageSlots == {1, 2}

NoPage == [pc |-> "idle", url |-> <<"", 0>>, method |-> "", cookie |-> "",
           user |-> "nobody", started |-> 0]

\* The calls of a function wrapped by retry_on_failure that can be in
\* progress at a time, one for a thread; NoCall is a thread without a call.
RetrySlots == {1, 2}

NoCall == [pc |-> "idle", retries |-> 0, delay |-> 0, attempt |-> 0,
           calls |-> 0, slept |-> 0, behaviour |-> << >>]

NoTime == "None"
Now == "ts"
NoCache == <<"<not cached>">>
NoUser == "nobody"

VARIABLES users, db, nextId, notifs, hist, inst, req, resp, steps,
          cache, clock, sessions, participants, query_cache, out,
          completed, messages, removals, pages, retry, accounts,
          conversations

vars == <<users, db, nextId, notifs, hist, inst, req, resp, steps,
          cache, clock, sessions, participants, query_cache, out,
          completed, messages, removals, pages,
                 retry, accounts, conversations>>

\* The stored rows, as one value handed to the operators below.
World == [users |-> users, db |-> db, nextId |-> nextId,
          notifs |-> notifs, hist |-> hist]

\* ------------------------------------------------------- text of subjects
\* str.startswith('Re: ')
StartsWithRe(s) == Len(s) >= 1 /\ s[1] = "Re"

\* f"Re: {subject}"
RePrefix(s) == <<"Re">> \o s

\* An unbound in-memory instance.
NoInst ==
  [pk |-> 0, sender |-> NoUser, receiver |-> NoUser, subject |-> <<>>,
   content |-> "", is_read |-> FALSE, edited |-> FALSE,
   last_edited |-> NoTime, parent |-> 0, pcache |-> NoCache]

\* Message(**kwargs): a new, unsaved instance; parent_message is passed as
\* an instance, so the related object is cached on the new instance.
NewInstance(w, sender, receiver, subject, content, is_read, parent) ==
  [pk |-> 0, sender |-> sender, receiver |-> receiver, subject |-> subject,
   content |-> content, is_read |-> is_read, edited |-> FALSE,
   last_edited |-> NoTime, parent |-> parent,
   pcache |-> IF parent = 0 THEN NoCache ELSE w.db[parent].subject]

\* The row an instance is written as.
RowOf(i) ==
  [sender |-> i.sender, receiver |-> i.receiver, subject |-> i.subject,
   content |-> i.content, is_read |-> i.is_read, edited |-> i.edited,
   last_edited |-> i.last_edited, parent |-> i.parent]

\* Message.objects.get(pk=...): a fresh instance, no related object cached.
InstanceOf(w, pk) ==
  [pk |-> pk, sender |-> w.db[pk].sender, receiver |-> w.db[pk].receiver,
   subject |-> w.db[pk].subject, content |-> w.db[pk].content,
   is_read |-> w.db[pk].is_read, edited |-> w.db[pk].edited,
   last_edited |-> w.db[pk].last_edited, parent |-> w.db[pk].parent,
   pcache |-> NoCache]

\* ------------------------------------------------------- signal handlers
\* Variant of create_message_notification that addresses the 'reply'
\* notification to the receiver of the reply instead of the parent's sender.
create_message_notification_ToReceiver(w, i, created) ==
  IF ~created THEN w
  ELSE
    LET isReply == i.parent # 0
        parentSender == w.db[i.parent].sender
        direct ==
          IF isReply /\ i.receiver # parentSender
          THEN << [user |-> i.receiver, message |-> i.pk,
                   notification_type |-> "message",
                   title |-> <<"New message from", i.sender>>,
                   is_read |-> FALSE] >>
          ELSE << >>
        main ==
          [user |-> i.receiver,
           message |-> i.pk,
           notification_type |-> IF isReply THEN "reply" ELSE "message",
           title |-> IF isReply THEN <<"New reply from", i.sender>>
                                ELSE <<"New message from", i.sender>>,
           is_read |-> FALSE]
    IN [w EXCEPT !.notifs = (@ \o direct) \o <<main>>]

\* Variant of create_message_notification that notifies the receiver of a
\* reply without comparing it with the sender of the parent.
create_message_notification_Unconditional(w, i, created) ==
  IF ~created THEN w
  ELSE
    LET isReply == i.parent # 0
        parentSender == w.db[i.parent].sender
        direct ==
          IF isReply
          THEN << [user |-> i.receiver, message |-> i.pk,
                   notification_type |-> "message",
                   title |-> <<"New message from", i.sender>>,
                   is_read |-> FALSE] >>
          ELSE << >>
        main ==
          [user |-> IF isReply THEN parentSender ELSE i.receiver,
           message |-> i.pk,
           notification_type |-> IF isReply THEN "reply" ELSE "message",
           title |-> IF isReply THEN <<"New reply from", i.sender>>
                                ELSE <<"New message from", i.sender>>,
           is_read |-> FALSE]
    IN [w EXCEPT !.notifs = (@ \o direct) \o <<main>>]

\* post_save receiver: notifications for a newly created message.
create_message_notification(w, i, created) ==
  IF ~created THEN w
  ELSE
    LET isReply == i.parent # 0
        parentSender == w.db[i.parent].sender
        direct ==
          IF isReply /\ i.receiver # parentSender
          THEN << [user |-> i.receiver, message |-> i.pk,
                   notification_type |-> "message",
                   title |-> <<"New message from", i.sender>>,
                   is_read |-> FALSE] >>
          ELSE << >>
        main ==
          [user |-> IF isReply THEN parentSender ELSE i.receiver,
           message |-> i.pk,
           notification_type |-> IF isReply THEN "reply" ELSE "message",
           title |-> IF isReply THEN <<"New reply from", i.sender>>
                                ELSE <<"New message from", i.sender>>,
           is_read |-> FALSE]
    IN [w EXCEPT !.notifs = (@ \o direct) \o <<main>>]

\* Variant of log_message_edit that records the values being saved instead
\* of the stored ones.
log_message_edit_NewValues(w, i) ==
  IF i.pk = 0 THEN w
  ELSE IF i.pk \notin DOMAIN w.db THEN w
  ELSE
    LET original == w.db[i.pk] IN
    IF original.content # i.content \/ original.subject # i.subject
    THEN [w EXCEPT
            !.hist = Append(@, [message |-> i.pk,
                                old_subject |-> i.subject,
                                old_content |-> i.content,
                                edited_by |-> i.sender]),
            !.notifs = Append(@, [user |-> i.receiver, message |-> i.pk,
                                  notification_type |-> "edit",
                                  title |-> <<"Message edited by", i.sender>>,
                                  is_read |-> FALSE])]
    ELSE w

\* pre_save receiver: history row and 'edit' notification when the instance
\* differs in subject or content from the stored row.
log_message_edit(w, i) ==
  IF i.pk = 0 THEN w
  ELSE IF i.pk \notin DOMAIN w.db THEN w
  ELSE
    LET original == w.db[i.pk] IN
    IF original.content # i.content \/ original.subject # i.subject
    THEN [w EXCEPT
            !.hist = Append(@, [message |-> i.pk,
                                old_subject |-> original.subject,
                                old_content |-> original.content,
                                edited_by |-> i.sender]),
            !.notifs = Append(@, [user |-> i.receiver, message |-> i.pk,
                                  notification_type |-> "edit",
                                  title |-> <<"Message edited by", i.sender>>,
                                  is_read |-> FALSE])]
    ELSE w

\* pre_save receiver: subject of a new reply.
handle_reply_subject(i) ==
  IF i.parent # 0 /\ i.pk = 0 /\ ~StartsWithRe(i.subject)
  THEN [i EXCEPT !.subject = RePrefix(i.pcache)]
  ELSE i

\* ------------------------------------------------------------ Message.save
\* The part of Message.save before super().save(): the edited flag, then the
\* subject of a reply.  Reading self.parent_message loads and caches the
\* parent row when it is not cached yet.
MessageSavePrepare(w, i) ==
  LET original == w.db[i.pk]
      differs == i.pk # 0 /\ (original.content # i.content
                              \/ original.subject # i.subject)
      i1 == IF differs THEN [i EXCEPT !.edited = TRUE, !.last_edited = Now]
                       ELSE i
      pc == IF i1.parent # 0 /\ i1.pcache = NoCache
            THEN w.db[i1.parent].subject ELSE i1.pcache
      i2 == [i1 EXCEPT !.pcache = pc]
  IN IF i2.parent # 0 /\ ~StartsWithRe(i2.subject)
     THEN [i2 EXCEPT !.subject = RePrefix(pc)]
     ELSE i2

\* The row an UPDATE writes: every column, or only is_read with
\* update_fields=['is_read'].
WrittenRow(old, i, uf) ==
  IF uf = "is_read" THEN [old EXCEPT !.is_read = i.is_read] ELSE RowOf(i)

\* Message.save(update_fields=uf): ok is FALSE when Message.objects.get
\* raises DoesNotExist (the row of a saved instance is gone); nothing is
\* written then.
MessageSave(w, i, uf) ==
  IF i.pk # 0 /\ i.pk \notin DOMAIN w.db
  THEN [ok |-> FALSE, w |-> w, i |-> i]
  ELSE
    LET i2 == MessageSavePrepare(w, i)
        w1 == log_message_edit(w, i2)
        i3 == handle_reply_subject(i2)
    IN IF i3.pk = 0
       THEN LET i4 == [i3 EXCEPT !.pk = w1.nextId]
                w2 == [w1 EXCEPT !.db = @ @@ (i4.pk :> RowOf(i4)),
                                 !.nextId = @ + 1]
            IN [ok |-> TRUE, w |-> create_message_notification(w2, i4, TRUE),
                i |-> i4]
       ELSE LET w2 == [w1 EXCEPT !.db[i3.pk] = WrittenRow(@, i3, uf)]
            IN [ok |-> TRUE, w |-> create_message_notification(w2, i3, FALSE),
                i |-> i3]

\* Message.mark_as_read() / mark_as_unread() with commit=True.
MessageMarkAsRead(w, i) == MessageSave(w, [i EXCEPT !.is_read = TRUE], "is_read")

MessageMarkAsUnread(w, i) == MessageSave(w, [i EXCEPT !.is_read = FALSE], "is_read")

\* ------------------------------------------------- UnreadMessagesManager
\* get_queryset().filter(receiver=user): the unread messages a user received.
UnreadFor(w, u) ==
  {m \in DOMAIN w.db : ~w.db[m].is_read /\ w.db[m].receiver = u}

unread_count_for_user(w, u) == Cardinality(UnreadFor(w, u))

\* The message_ids argument: None, or a list of ids.
IdsArg(none, ids) == [none |-> none, ids |-> ids]

\* Python truth value of message_ids.
Truthy(arg) == ~arg.none /\ Len(arg.ids) > 0

InList(x, l) == \E k \in 1..Len(l) : l[k] = x

\* Variant of MarkAsReadSelection that filters by the id list in every case.
MarkAsReadSelection_AlwaysFilter(w, u, arg) ==
  {m \in UnreadFor(w, u) : InList(m, arg.ids)}

\* UnreadMessagesManager.mark_as_read(user, message_ids): the rows the
\* UPDATE touches, the stored rows afterwards and the returned row count.
MarkAsReadSelection(w, u, arg) ==
  IF Truthy(arg) THEN {m \in UnreadFor(w, u) : InList(m, arg.ids)}
                 ELSE UnreadFor(w, u)

ManagerMarkAsRead(w, u, arg) ==
  LET sel == MarkAsReadSelection(w, u, arg)
  IN [w |-> [w EXCEPT !.db = [m \in DOMAIN @ |->
                               IF m \in sel THEN [@[m] EXCEPT !.is_read = TRUE]
                                            ELSE @[m]]],
      ret |-> Cardinality(sel)]

\* ------------------------------------------------------------- threads
\* A queryset of messages under Meta.ordering = ['timestamp']: the ids in
\* the order of creation.
RECURSIVE Ordered(_)
Ordered(s) ==
  IF s = {} THEN << >>
  ELSE LET m == CHOOSE x \in s : \A y \in s : x <= y
       IN <<m>> \o Ordered(s \ {m})

\* MessageManager.get_conversation_thread(root_message): the rows matching
\* pk = root, parent_message = root or parent_message__parent_message = root.
get_conversation_thread(w, root) ==
  Ordered({m \in DOMAIN w.db :
             \/ m = root
             \/ w.db[m].parent = root
             \/ /\ w.db[m].parent \in DOMAIN w.db
                /\ w.db[w.db[m].parent].parent = root})

\* messages_dict[id]: the entry of message id, with the entries appended to
\* its 'replies' list; entries are shared, so the replies of a reply show
\* in every place the reply is listed.
RECURSIVE ThreadEntry(_, _, _)
ThreadEntry(w, q, id) ==
  LET r == SelectSeq(q, LAMBDA m : w.db[m].parent = id)
  IN [message |-> id,
      replies |-> [k \in 1..Len(r) |-> ThreadEntry(w, q, r[k])]]

\* build_thread_tree(messages_queryset): the entries of the messages
\* without a parent; a reply is appended to the entry of its parent when
\* the parent is in the queryset, and to nothing otherwise.
build_thread_tree(w, q) ==
  LET roots == SelectSeq(q, LAMBDA m : w.db[m].parent = 0)
  IN [k \in 1..Len(roots) |-> ThreadEntry(w, q, roots[k])]

\* ------------------------------------------------------- deleting a user
\* on_delete=CASCADE of Message.parent_message: the messages deleted with
\* the set s are s and every reply, at any depth, to a message of s.
RECURSIVE WithReplies(_, _)
WithReplies(w, s) ==
  LET more == {m \in DOMAIN w.db : w.db[m].parent \in s} \ s
  IN IF more = {} THEN s ELSE WithReplies(w, s \cup more)

\* Variant of CascadeMessages that leaves the replies in place.
CascadeMessages_DirectOnly(w, u) ==
  {m \in DOMAIN w.db : w.db[m].sender = u \/ w.db[m].receiver = u}

\* on_delete=CASCADE of Message.sender and Message.receiver.
CascadeMessages(w, u) ==
  WithReplies(w, {m \in DOMAIN w.db : w.db[m].sender = u \/ w.db[m].receiver = u})

\* post_delete receiver of User: it only counts and prints.
cleanup_user_data(w, u) == w

\* User.delete(): the user row, and by cascade the messages, notifications
\* and history rows that reference it or a deleted message.
UserDelete(w, u) ==
  LET dead == CascadeMessages(w, u)
      keepN(n) == n.user # u /\ n.message \notin dead
      keepH(x) == x.edited_by # u /\ x.message \notin dead
      w1 == [w EXCEPT !.users = @ \ {u},
                      !.db = [m \in (DOMAIN @) \ dead |-> @[m]],
                      !.notifs = SelectSeq(@, keepN),
                      !.hist = SelectSeq(@, keepH)]
  IN cleanup_user_data(w1, u)

\* ------------------------------------------------------------ the state
\* The template context of a response that carries none.
NoContext == [thread_messages |-> << >>, thread_tree |-> << >>]

NoResp == [view |-> "none", status |-> 0, body |-> "", count |-> -1,
           marked |-> -1, context |-> NoContext]

Idle == [pc |-> "idle", user |-> NoUser, xhr |-> FALSE, updated |-> 0,
         clean |-> TRUE, own |-> FALSE]

\* The mark_all_read requests that can be in flight at a time, one for a
\* worker.
ReqSlots == {1, 2}

\* The page cache is empty at time 0 and every session cookie belongs to
\* its logged-in user.
PagesInit ==
  /\ cache = << >>
  /\ clock = 0
  /\ sessions = [c \in SessionCookies |-> SessionUser[c]]
  /\ pages = [k \in PageSlots |-> NoPage]

\* No conversation has a participant.
ChatsInit ==
  /\ participants = [p \in Convs \X ChatUsers |-> 0]
  /\ messages = << >>
  /\ removals = NoRemovals
  /\ accounts = ChatUsers
  /\ conversations = Convs

\* query_cache = {} at import; no decorated function was called.
DecoratorsInit ==
  /\ query_cache = << >>
  /\ completed = {}
  /\ out = NoOut
  /\ retry = [k \in RetrySlots |-> NoCall]

Init ==
  /\ PagesInit /\ ChatsInit /\ DecoratorsInit
  /\ users = Users
  /\ db = << >>
  /\ nextId = 1
  /\ notifs = << >>
  /\ hist = << >>
  /\ inst = [h \in Handles |-> NoInst]
  /\ req = [k \in ReqSlots |-> Idle]
  /\ resp = NoResp
  /\ steps = 0

\* The steps of a behaviour create messages up to the id MaxMsgs.
Fits(w) == w.nextId = nextId \/ w.nextId <= MaxMsgs + 1

\* A mark_all_read request between its UPDATE and its response notes
\* whether the request of some user wrote to the message table, and whether
\* that was another request of the same user.
ReqAfter(newdb, actor) ==
  [k \in ReqSlots |->
     IF req[k].pc = "updated" /\ newdb # db
     THEN [req[k] EXCEPT !.clean = FALSE, !.own = @ \/ actor = req[k].user]
     ELSE req[k]]

Store(w) ==
  /\ Fits(w)
  /\ users' = w.users
  /\ db' = w.db
  /\ nextId' = w.nextId
  /\ notifs' = w.notifs
  /\ hist' = w.hist

\* A behaviour consists of at most MaxSteps operations on the models, or at
\* most MaxWebSteps requests.
\* The operations on the messages and the requests to the message views do
\* not touch the page cache, the conversations or the decorators.
Tick ==
  /\ steps < MaxSteps /\ steps' = steps + 1
  /\ UNCHANGED <<cache, clock, sessions, participants, query_cache, out,
                 completed, messages, removals, pages,
                 retry, accounts, conversations>>

WebTick ==
  /\ steps < MaxWebSteps /\ steps' = steps + 1
  /\ UNCHANGED <<cache, clock, sessions, participants, query_cache, out,
                 completed, messages, removals, pages,
                 retry, accounts, conversations>>

\* ------------------------------------------------------- ORM operations
\* h = Message.objects.create(sender=..., receiver=..., subject=...,
\*                            content=..., is_read=..., parent_message=...)
Create(h, s, r, subj, c, rd, p) ==
  /\ Tick
  /\ s \in users /\ r \in users
  /\ p = 0 \/ p \in DOMAIN db
  /\ LET res == MessageSave(World, NewInstance(World, s, r, subj, c, rd, p), "all")
     IN /\ Store(res.w)
        /\ inst' = [inst EXCEPT ![h] = res.i]
  /\ UNCHANGED <<req, resp>>

\* h = Message.objects.get(pk=pk); h.refresh_from_db() when h holds pk.
Load(h, pk) ==
  /\ Tick
  /\ pk \in DOMAIN db
  /\ inst' = [inst EXCEPT ![h] = InstanceOf(World, pk)]
  /\ UNCHANGED <<users, db, nextId, notifs, hist, req, resp>>

\* h.subject = subj; h.content = c; h.is_read = rd; h.save()
EditSave(h, subj, c, rd) ==
  /\ Tick
  /\ inst[h].pk # 0
  /\ LET res == MessageSave(World,
                   [inst[h] EXCEPT !.subject = subj, !.content = c,
                                   !.is_read = rd], "all")
     IN /\ res.ok
        /\ Store(res.w)
        /\ inst' = [inst EXCEPT ![h] = res.i]
  /\ UNCHANGED <<req, resp>>

\* h.mark_as_read()
MarkAsRead(h) ==
  /\ Tick
  /\ inst[h].pk # 0
  /\ LET res == MessageMarkAsRead(World, inst[h])
     IN /\ res.ok
        /\ Store(res.w)
        /\ inst' = [inst EXCEPT ![h] = res.i]
  /\ UNCHANGED <<req, resp>>

\* h.mark_as_unread()
MarkAsUnread(h) ==
  /\ Tick
  /\ inst[h].pk # 0
  /\ LET res == MessageMarkAsUnread(World, inst[h])
     IN /\ res.ok
        /\ Store(res.w)
        /\ inst' = [inst EXCEPT ![h] = res.i]
  /\ UNCHANGED <<req, resp>>

\* Message.unread_messages.mark_as_read(u, message_ids)
CallMarkAsRead(u, arg) ==
  /\ Tick
  /\ u \in users
  /\ LET res == ManagerMarkAsRead(World, u, arg)
     IN /\ Store(res.w)
        /\ resp' = [view |-> "manager.mark_as_read", status |-> 0,
                    body |-> "", count |-> res.ret, marked |-> -1,
                    context |-> NoContext]
  /\ UNCHANGED <<inst, req>>

\* u.delete()
DeleteUser(u) ==
  /\ Tick
  /\ u \in users
  /\ LET w == UserDelete(World, u)
     IN /\ Store(w)
  /\ UNCHANGED <<inst, req, resp>>

\* ---------------------------------------------------------------- views
\* Every view is behind login_required: u is the authenticated request.user.
Response(view, status, body, count) ==
  [view |-> view, status |-> status, body |-> body, count |-> count,
   marked |-> -1, context |-> NoContext]

\* str.strip() of the posted content.
Strip(c) == IF c = " " THEN "" ELSE c

\* root_message.sender != request.user and root_message.receiver != request.user
NotParticipant(w, u, pk) == w.db[pk].sender # u /\ w.db[pk].receiver # u

\* GET thread/<message_id>/
MessageThread(u, pk) ==
  /\ WebTick
  /\ u \in users
  /\ IF pk \notin DOMAIN db
     THEN /\ resp' = Response("message_thread", 404, "not_found", -1)
          /\ UNCHANGED <<users, db, nextId, notifs, hist, req>>
     ELSE IF NotParticipant(World, u, pk)
     THEN /\ resp' = Response("message_thread", 200, "access_denied", -1)
          /\ UNCHANGED <<users, db, nextId, notifs, hist, req>>
     ELSE LET res == IF db[pk].receiver = u /\ ~db[pk].is_read
                     THEN MessageMarkAsRead(World, InstanceOf(World, pk))
                     ELSE [ok |-> TRUE, w |-> World, i |-> NoInst]
              thread_messages == get_conversation_thread(res.w, pk)
          IN /\ Store(res.w)
             /\ req' = ReqAfter(res.w.db, u)
             /\ resp' = [Response("message_thread", 200, "message_thread", -1)
                           EXCEPT !.context =
                             [thread_messages |-> thread_messages,
                              thread_tree |->
                                build_thread_tree(res.w, thread_messages)]]
  /\ UNCHANGED inst

\* GET or POST reply/<message_id>/
CreateReply(u, pk, method, posted) ==
  /\ WebTick
  /\ u \in users
  /\ IF pk \notin DOMAIN db
     THEN /\ resp' = Response("create_reply", 404, "not_found", -1)
          /\ UNCHANGED <<users, db, nextId, notifs, hist, req>>
     ELSE IF NotParticipant(World, u, pk)
     THEN /\ resp' = Response("create_reply", 200, "access_denied", -1)
          /\ UNCHANGED <<users, db, nextId, notifs, hist, req>>
     ELSE IF method = "POST" /\ Strip(posted) # ""
     THEN LET parent == db[pk]
              to == IF u # parent.sender THEN parent.sender ELSE parent.receiver
              res == MessageSave(World,
                       NewInstance(World, u, to, RePrefix(parent.subject),
                                   Strip(posted), FALSE, pk), "all")
          IN /\ Store(res.w)
             /\ req' = ReqAfter(res.w.db, u)
             /\ resp' = Response("create_reply", 302, "redirect", -1)
     ELSE /\ resp' = Response("create_reply", 200, "create_reply", -1)
          /\ UNCHANGED <<users, db, nextId, notifs, hist, req>>
  /\ UNCHANGED inst

\* GET api/thread/<message_id>/
ConversationThreadApi(u, pk) ==
  /\ WebTick
  /\ u \in users
  /\ resp' = IF pk \notin DOMAIN db
             THEN Response("conversation_thread_api", 404, "not_found", -1)
             ELSE IF NotParticipant(World, u, pk)
             THEN Response("conversation_thread_api", 403, "access_denied", -1)
             ELSE Response("conversation_thread_api", 200, "thread", -1)
  /\ UNCHANGED <<users, db, nextId, notifs, hist, inst, req>>

\* GET api/unread/
UnreadMessagesApi(u) ==
  /\ WebTick
  /\ u \in users
  /\ resp' = Response("unread_messages_api", 200, "json",
                      unread_count_for_user(World, u))
  /\ UNCHANGED <<users, db, nextId, notifs, hist, inst, req>>

\* POST message/<message_id>/mark-read/: the receiver's message is marked
\* as read by Message.mark_as_read(); the answer is the JsonResponse with
\* the unread count of an XMLHttpRequest, or the redirect.
MarkMessageRead(u, pk, xhr) ==
  /\ WebTick
  /\ u \in users
  /\ IF pk \notin DOMAIN db \/ db[pk].receiver # u
     THEN /\ resp' = Response("mark_message_read", 404, "not_found", -1)
          /\ UNCHANGED <<users, db, nextId, notifs, hist, req>>
     ELSE LET res == MessageMarkAsRead(World, InstanceOf(World, pk))
          IN /\ Store(res.w)
             /\ req' = ReqAfter(res.w.db, u)
             /\ resp' = IF xhr
                        THEN Response("mark_message_read", 200, "json",
                                      unread_count_for_user(res.w, u))
                        ELSE Response("mark_message_read", 302, "redirect", -1)
  /\ UNCHANGED inst

\* POST mark-all-read/ taken by the worker k: the bulk UPDATE.  The
\* response is produced in a later step, so other requests can run in
\* between, another POST to mark-all-read included.
MarkAllReadPost(k, u, xhr) ==
  /\ WebTick
  /\ u \in users
  /\ req[k].pc = "idle"
  /\ \A j \in ReqSlots : j < k => req[j].pc # "idle"
  /\ LET res == ManagerMarkAsRead(World, u, IdsArg(TRUE, << >>))
     IN /\ Store(res.w)
        /\ req' = [ReqAfter(res.w.db, u) EXCEPT
                     ![k] = [pc |-> "updated", user |-> u, xhr |-> xhr,
                             updated |-> res.ret, clean |-> TRUE,
                             own |-> FALSE]]
  /\ UNCHANGED <<inst, resp>>

\* POST mark-all-read/: the JsonResponse with 'unread_count': 0, or the
\* redirect when the request is not an XMLHttpRequest; both tell the number
\* of rows the UPDATE marked.
MarkAllReadRespond(k) ==
  /\ WebTick
  /\ req[k].pc = "updated"
  /\ resp' = [IF req[k].xhr THEN Response("mark_all_read", 200, "json", 0)
                            ELSE Response("mark_all_read", 302, "redirect", -1)
                EXCEPT !.marked = req[k].updated]
  /\ req' = [req EXCEPT ![k] = Idle]
  /\ UNCHANGED <<users, db, nextId, notifs, hist, inst>>

\* GET mark-all-read/
MarkAllReadGet(u) ==
  /\ WebTick
  /\ u \in users
  /\ resp' = Response("mark_all_read.get", 302, "redirect", -1)
  /\ UNCHANGED <<users, db, nextId, notifs, hist, inst, req>>

\* ------------------------------------------------------- the page cache
\* The cache maps a key to a value and the time it expires.  A key is read
\* as missing once the clock has reached its expiry time.
\* Variant of HasExpired in which no entry ever expires.
HasExpired_Never(entry, now) == FALSE

\* The cache backend's expiry test.
HasExpired(entry, now) == entry.expires <= now

\* cache.get(key) is not None
CacheHas(c, key, now) == key \in DOMAIN c /\ ~HasExpired(c[key], now)

\* cache.get(key), for a key the cache has
CacheGet(c, key) == c[key].value

\* cache.set(key, value, timeout)
CacheSet(c, key, value, now, timeout) ==
  [k \in (DOMAIN c) \cup {key} |->
     IF k = key THEN [value |-> value, expires |-> now + timeout] ELSE c[k]]

\* The key under which the cache middleware stores the list of the request
\* headers that the responses of a URL vary on.
HeaderKey(url) == <<"cache_header", url>>

\* The key of a cached page: the URL, the method, and the request's values
\* of the headers in the list.
PageKey(url, method, headerlist, cookie) ==
  <<"cache_page", url, method,
    [k \in 1..Len(headerlist) |->
       IF headerlist[k] = "Cookie" THEN cookie ELSE ""]>>

\* Variant of vary_on_cookie that leaves the response as it is.
vary_on_cookie_Nothing(response) == response

\* @vary_on_cookie: adds Cookie to the Vary header of the view's response.
vary_on_cookie(response) ==
  IF \E k \in 1..Len(response.vary) : response.vary[k] = "Cookie"
  THEN response
  ELSE [response EXCEPT !.vary = Append(@, "Cookie")]

\* A queryset under order_by('-timestamp'): the newest message first.
RECURSIVE Descending(_)
Descending(s) ==
  IF s = {} THEN << >>
  ELSE LET m == CHOOSE x \in s : \A y \in s : x >= y
       IN <<m>> \o Descending(s \ {m})

\* MessageManager.get_root_messages(user)
get_root_messages(w, u) ==
  Descending({m \in DOMAIN w.db :
                (w.db[m].sender = u \/ w.db[m].receiver = u) /\ w.db[m].parent = 0})

\* UnreadMessagesManager.for_user(user)
UnreadListFor(w, u) == Descending(UnreadFor(w, u))

\* ReadMessagesManager.for_user(user)
ReadListFor(w, u) ==
  Descending({m \in DOMAIN w.db :
                w.db[m].is_read /\ (w.db[m].sender = u \/ w.db[m].receiver = u)})

\* MessageManager.get_user_conversations(user).count()
UserConversationsCount(w, u) ==
  Cardinality({m \in DOMAIN w.db : w.db[m].sender = u \/ w.db[m].receiver = u})

\* render(request, template, context): the page rendered for request.user
\* from the context, as an HTTP 200 response.
Render(template, u, data) ==
  [status |-> 200, vary |-> << >>,
   content |-> [template |-> template, user |-> u, data |-> data]]

\* A page rendered without a context, and the pages the framework produces.
EmptyContext == [context |-> "empty"]

NotFoundPage == [template |-> "404", user |-> NoUser, data |-> EmptyContext]

LoginRedirect == [template |-> "redirect to login", user |-> NoUser,
                  data |-> EmptyContext]

\* The bodies of the four cached views, run for request.user = u at the
\* time now: the rows afterwards, whether Http404 was raised, and the
\* response.
conversation_list(w, u, now) ==
  [w |-> w, raised |-> FALSE,
   response |-> Render("conversation_list", u,
                       [conversations |-> get_root_messages(w, u),
                        unread_count |-> unread_count_for_user(w, u),
                        cached_at |-> now])]

unread_messages(w, u, now) ==
  [w |-> w, raised |-> FALSE,
   response |-> Render("unread_messages", u,
                       [unread_messages |-> UnreadListFor(w, u),
                        unread_count |-> unread_count_for_user(w, u),
                        cached_at |-> now])]

inbox_summary(w, u, now) ==
  [w |-> w, raised |-> FALSE,
   response |-> Render("inbox_summary", u,
                       [unread_messages |-> UnreadListFor(w, u),
                        read_messages |->
                          SubSeq(ReadListFor(w, u), 1,
                                 IF Len(ReadListFor(w, u)) < 20
                                 THEN Len(ReadListFor(w, u)) ELSE 20),
                        unread_count |-> Len(UnreadListFor(w, u)),
                        read_count |-> Len(ReadListFor(w, u)),
                        total_count |-> UserConversationsCount(w, u),
                        cached_at |-> now])]

\* message_thread, lines 46-48: the receiver's unread message is marked as
\* read.
MarkIfUnread(w, u, pk) ==
  IF w.db[pk].receiver = u /\ ~w.db[pk].is_read
  THEN MessageMarkAsRead(w, InstanceOf(w, pk)).w
  ELSE w

\* message_thread, lines 50-68: the thread page of the rows w.
ThreadPage(w, u, pk, now) ==
  [w |-> w, raised |-> FALSE,
   response |-> Render("message_thread", u,
                  [root_message |-> pk,
                   thread_messages |-> get_conversation_thread(w, pk),
                   thread_tree |->
                     build_thread_tree(w, get_conversation_thread(w, pk)),
                   cached_at |-> now])]

message_thread(w, u, pk, now) ==
  IF pk \notin DOMAIN w.db
  THEN [w |-> w, raised |-> TRUE,
        response |-> [status |-> 404, vary |-> << >>, content |-> NotFoundPage]]
  ELSE IF NotParticipant(w, u, pk)
  THEN [w |-> w, raised |-> FALSE,
        response |-> Render("access_denied", u, EmptyContext)]
  ELSE ThreadPage(MarkIfUnread(w, u, pk), u, pk, now)

\* The view function behind a URL <<name, message_id>>.
ViewBody(url, w, u, now) ==
  CASE url[1] = "conversation_list" -> conversation_list(w, u, now)
    [] url[1] = "unread_messages" -> unread_messages(w, u, now)
    [] url[1] = "inbox_summary" -> inbox_summary(w, u, now)
    [] url[1] = "message_thread" -> message_thread(w, u, url[2], now)

\* A page request takes one of at most MaxPageSteps steps of a behaviour and
\* leaves the conversations and the decorators alone.
PageTick ==
  /\ steps < MaxPageSteps /\ steps' = steps + 1
  /\ UNCHANGED <<participants, query_cache, out, completed, inst, req,
                 messages, removals, retry, accounts, conversations>>

\* The user of a request: the user of its session, if the cookie names one.
RequestUser(cookie) ==
  IF cookie \in DOMAIN sessions THEN sessions[cookie] ELSE NoUser

\* process_response of the cache middleware, for the response of a view
\* that ran to the time now with the rows w: the rows are stored, and the
\* 200 response to a GET that raised nothing is cached with the header list
\* of its Vary header, both for CacheTimeout seconds.
\* The response records the request it answers (URL, method, cookie and
\* its number in the behaviour), whether it came from the cache and whether
\* the view body ran.
PageRan(url, method, cookie, now, w, raised, response) ==
  /\ Store(w)
  /\ clock' = now
  /\ cache' =
       IF method = "GET" /\ ~raised /\ response.status = 200
       THEN CacheSet(
              CacheSet(cache, HeaderKey(url), response.vary, now,
                       CacheTimeout),
              PageKey(url, "GET", response.vary, cookie),
              response, now, CacheTimeout)
       ELSE cache
  /\ resp' = [view |-> url, status |-> response.status,
              content |-> response.content,
              from_cache |-> FALSE, ran |-> TRUE,
              method |-> method, cookie |-> cookie,
              seq |-> steps']
  /\ UNCHANGED sessions

\* The decorators around the result res of a view body: vary_on_cookie
\* patches the response the view returned; Http404 passes it by.
ViewRan(url, method, cookie, now, res) ==
  PageRan(url, method, cookie, now, res.w, res.raised,
          IF res.raised THEN res.response
          ELSE vary_on_cookie(res.response))

\* A request to one of the views decorated with
\*   @login_required @cache_page(60) @vary_on_cookie.
\* login_required redirects a request without a logged-in user.  The cache
\* middleware answers a GET from the cache when the header list of the URL
\* and the page under the key built from it are stored and not expired;
\* otherwise the view runs, and its 200 response to a GET is stored with
\* the header list of its Vary header, both for CacheTimeout seconds.
\* The request is taken by the worker k.  A request that reaches the view
\* enters its body, which begins with time.sleep(1): the worker holds the
\* request, its user and the time, and other requests are served meanwhile.
CachedPage(k, url, method, cookie) ==
  /\ PageTick
  /\ pages[k].pc = "idle"
  /\ \A j \in PageSlots : j < k => pages[j].pc # "idle"
  /\ UNCHANGED <<users, db, nextId, notifs, hist, cache, clock, sessions>>
  /\ LET u == RequestUser(cookie) IN
     IF u = NoUser \/ u \notin users
     THEN /\ resp' = [view |-> url, status |-> 302, content |-> LoginRedirect,
                      from_cache |-> FALSE, ran |-> FALSE,
                      method |-> method, cookie |-> cookie, seq |-> steps']
          /\ UNCHANGED pages
     ELSE
       LET learned == method = "GET" /\ CacheHas(cache, HeaderKey(url), clock)
           key == PageKey(url, "GET", CacheGet(cache, HeaderKey(url)), cookie)
       IN IF learned /\ CacheHas(cache, key, clock)
          THEN /\ resp' = [view |-> url, status |-> CacheGet(cache, key).status,
                           content |-> CacheGet(cache, key).content,
                           from_cache |-> TRUE, ran |-> FALSE,
                           method |-> method, cookie |-> cookie,
                           seq |-> steps']
               /\ UNCHANGED pages
          ELSE /\ pages' = [pages EXCEPT
                             ![k] = [pc |-> "asleep", url |-> url,
                                     method |-> method, cookie |-> cookie,
                                     user |-> u, started |-> clock]]
               /\ UNCHANGED resp

\* The time at which the view body of the worker k continues: time.sleep(1)
\* is over.
WakeTime(k) ==
  IF clock < pages[k].started + ViewDelay THEN pages[k].started + ViewDelay
  ELSE clock

\* The worker k wakes from time.sleep(1): the view body reads and writes
\* the rows as they are now, and the cache middleware stores the response.
ViewBodyRuns(k) ==
  /\ PageTick
  /\ pages[k].pc = "asleep"
  /\ pages' = [pages EXCEPT ![k] = NoPage]
  /\ ViewRan(pages[k].url, pages[k].method, pages[k].cookie, WakeTime(k),
             ViewBody(pages[k].url, World, pages[k].user, WakeTime(k)))

\* Time passes.
Advance(d) ==
  /\ PageTick
  /\ clock + d <= MaxClock
  /\ clock' = clock + d
  /\ UNCHANGED <<users, db, nextId, notifs, hist, cache, sessions, resp,
                 pages>>

\* cache.clear()
CacheClear ==
  /\ PageTick
  /\ cache' = << >>
  /\ UNCHANGED <<users, db, nextId, notifs, hist, clock, sessions, resp,
                 pages>>

\* logout(request): the session of the cookie is flushed.
Logout(cookie) ==
  /\ PageTick
  /\ cookie \in DOMAIN sessions
  /\ sessions' = [c \in (DOMAIN sessions) \ {cookie} |-> sessions[c]]
  /\ UNCHANGED <<users, db, nextId, notifs, hist, cache, clock, resp,
                 pages>>

\* -------------------------------------------- conversation participants
\* participants[<<c, u>>] is the number of ConversationParticipant rows
\* with conversation c and user u.
\* conversation.participants.count()
ParticipantCount(rows, c) ==
  LET RECURSIVE Sum(_)
      Sum(us) == IF us = {} THEN 0
                 ELSE LET u == CHOOSE x \in us : TRUE
                      IN rows[<<c, u>>] + Sum(us \ {u})
  IN Sum(ChatUsers)

\* ConversationViewSet.get_queryset / get_object: the conversation pk when
\* the requester participates in it; Http404 otherwise.
CanAccess(rows, requester, pk) == pk \in Convs /\ rows[<<pk, requester>>] >= 1

\* ConversationParticipant.objects.filter(conversation=..., user=...).exists()
IsParticipant(rows, c, u) == rows[<<c, u>>] >= 1


\* The check of add_participant for a user who participates already.
AlreadyParticipant(rows, c, u) == IsParticipant(rows, c, u)

\* Variant of LastParticipant that refuses only for an empty conversation.
LastParticipant_OffByOne(rows, c) == ParticipantCount(rows, c) < 1

\* The check of remove_participant for the last participant.
LastParticipant(rows, c) == ParticipantCount(rows, c) <= 1

\* ConversationParticipant.objects.create(conversation=c, user=u):
\* unique_together makes the INSERT of a second row of a pair fail.
ParticipantCreate(rows, c, u) ==
  IF rows[<<c, u>>] >= 1
  THEN [ok |-> FALSE, rows |-> rows]
  ELSE [ok |-> TRUE, rows |-> [rows EXCEPT ![<<c, u>>] = @ + 1]]

\* The response of a conversation action, with the request it answers.
ChatResponse(view, status, requester, pk, user_id) ==
  [view |-> view, status |-> status, requester |-> requester, pk |-> pk,
   user_id |-> user_id, seq |-> steps']

\* on_delete=CASCADE of ConversationParticipant.conversation: the rows left
\* when the conversation c is deleted.
RowsWithoutConversation(rows, c) ==
  [p \in DOMAIN rows |-> IF p[1] = c THEN 0 ELSE rows[p]]

\* A request to the chats takes one of at most MaxChatSteps steps and
\* leaves the page cache and the decorators alone.
ChatTick ==
  /\ steps < MaxChatSteps /\ steps' = steps + 1
  /\ UNCHANGED <<users, db, nextId, notifs, hist, inst, req, cache, clock,
                 sessions, query_cache, out, completed, removals, pages,
                 retry>>

\* POST conversations/<pk>/add_participant/ with user_id in the body, by an
\* authenticated requester.  User.user_id is a UUIDField: for a user_id
\* that is not a UUID, User.objects.get raises ValidationError, which is
\* not User.DoesNotExist and reaches the client as a 500.
AddParticipant(requester, pk, user_id) ==
  /\ ChatTick
  /\ requester \in accounts
  /\ UNCHANGED <<messages, accounts, conversations>>
  /\ IF ~CanAccess(participants, requester, pk)
     THEN /\ resp' = ChatResponse("add_participant", 404, requester, pk, user_id)
          /\ UNCHANGED participants
     ELSE IF user_id = NoId
     THEN /\ resp' = ChatResponse("add_participant", 400, requester, pk, user_id)
          /\ UNCHANGED participants
     ELSE IF user_id = MalformedId
     THEN /\ resp' = ChatResponse("add_participant", 500, requester, pk, user_id)
          /\ UNCHANGED participants
     ELSE IF user_id \notin accounts
     THEN /\ resp' = ChatResponse("add_participant", 404, requester, pk, user_id)
          /\ UNCHANGED participants
     ELSE IF AlreadyParticipant(participants, pk, user_id)
     THEN /\ resp' = ChatResponse("add_participant", 400, requester, pk, user_id)
          /\ UNCHANGED participants
     ELSE LET res == ParticipantCreate(participants, pk, user_id)
          IN /\ participants' = res.rows
             /\ resp' = ChatResponse("add_participant",
                                     IF res.ok THEN 200 ELSE 500,
                                     requester, pk, user_id)

\* POST conversations/<pk>/remove_participant/ with user_id in the body.
\* For a user_id that is not a UUID, ConversationParticipant.objects.get
\* raises ValidationError, which is not DoesNotExist: a 500.
RemoveParticipant(requester, pk, user_id) ==
  /\ ChatTick
  /\ requester \in accounts
  /\ UNCHANGED <<messages, accounts, conversations>>
  /\ IF ~CanAccess(participants, requester, pk)
     THEN /\ resp' = ChatResponse("remove_participant", 404, requester, pk, user_id)
          /\ UNCHANGED participants
     ELSE IF user_id = NoId
     THEN /\ resp' = ChatResponse("remove_participant", 400, requester, pk, user_id)
          /\ UNCHANGED participants
     ELSE IF user_id = MalformedId
     THEN /\ resp' = ChatResponse("remove_participant", 500, requester, pk, user_id)
          /\ UNCHANGED participants
     ELSE IF user_id \notin ChatUsers \/ ~IsParticipant(participants, pk, user_id)
     THEN /\ resp' = ChatResponse("remove_participant", 404, requester, pk, user_id)
          /\ UNCHANGED participants
     ELSE IF LastParticipant(participants, pk)
     THEN /\ resp' = ChatResponse("remove_participant", 400, requester, pk, user_id)
          /\ UNCHANGED participants
     ELSE /\ participants' = [participants EXCEPT ![<<pk, user_id>>] = 0]
          /\ resp' = ChatResponse("remove_participant", 200, requester, pk, user_id)

\* ------------------------------------- conversations and users of the chats
\* ConversationSerializer declares
\*   participants = ConversationParticipantSerializer(source='participants', ...)
\* and binding the fields of a serializer raises AssertionError for a field
\* that is declared with its own name as source.
ConversationSerializerBinds == "participants" # "participants"

\* The participant_ids of a request: a list of user ids.
ParticipantIds == {<< >>, <<"b">>, <<"b", UnknownId>>}

\* The users named in a list of ids.
Named(participant_ids) ==
  {participant_ids[k] : k \in DOMAIN participant_ids}

\* ConversationSerializer.create / update: a row for every user of
\* participant_ids, in the conversation c.
RowsOfParticipants(rows, c, us) ==
  [p \in DOMAIN rows |-> IF p[1] = c /\ p[2] \in us THEN 1 ELSE rows[p]]

\* POST conversations/ with participant_ids in the body.  create appends
\* the requester to participant_ids; serializer.is_valid binds the fields
\* of ConversationSerializer, whose AssertionError is answered with 500
\* before anything is written.  With fields that bind, is_valid refuses an
\* id that names no user, the serializer creates the conversation with a
\* row for every user named, and perform_create leaves the requester's row.
ConversationCreate(requester, participant_ids) ==
  /\ ChatTick
  /\ requester \in accounts
  /\ UNCHANGED <<messages, accounts>>
  /\ IF ~ConversationSerializerBinds
     THEN /\ resp' = ChatResponse("create_conversation", 500, requester, NoId,
                                  NoId)
          /\ UNCHANGED <<participants, conversations>>
     ELSE IF ~(Named(participant_ids) \subseteq accounts)
     THEN /\ resp' = ChatResponse("create_conversation", 400, requester, NoId,
                                  NoId)
          /\ UNCHANGED <<participants, conversations>>
     ELSE \E c \in Convs \ conversations :
            /\ conversations' = conversations \cup {c}
            /\ participants' =
                 RowsOfParticipants(participants, c,
                                    Named(participant_ids) \cup {requester})
            /\ resp' = ChatResponse("create_conversation", 201, requester, c,
                                    NoId)

\* PUT or PATCH conversations/<pk>/ with participant_ids in the body:
\* get_object, then the serializer as in create; with fields that bind,
\* ConversationSerializer.update deletes the rows of the conversation and
\* creates a row for every user named.
ConversationUpdate(requester, pk, participant_ids) ==
  /\ ChatTick
  /\ requester \in accounts
  /\ UNCHANGED <<messages, accounts, conversations>>
  /\ IF ~CanAccess(participants, requester, pk)
     THEN /\ resp' = ChatResponse("update_conversation", 404, requester, pk, NoId)
          /\ UNCHANGED participants
     ELSE IF ~ConversationSerializerBinds
     THEN /\ resp' = ChatResponse("update_conversation", 500, requester, pk, NoId)
          /\ UNCHANGED participants
     ELSE IF ~(Named(participant_ids) \subseteq accounts)
     THEN /\ resp' = ChatResponse("update_conversation", 400, requester, pk, NoId)
          /\ UNCHANGED participants
     ELSE /\ participants' =
               RowsOfParticipants(RowsWithoutConversation(participants, pk),
                                  pk, Named(participant_ids))
          /\ resp' = ChatResponse("update_conversation", 200, requester, pk, NoId)

\* DELETE conversations/<pk>/: get_object, then the conversation is
\* deleted with its participant rows and its messages.
ConversationDestroy(requester, pk) ==
  /\ ChatTick
  /\ requester \in accounts
  /\ UNCHANGED accounts
  /\ IF ~CanAccess(participants, requester, pk)
     THEN /\ resp' = ChatResponse("destroy_conversation", 404, requester, pk, NoId)
          /\ UNCHANGED <<participants, messages, conversations>>
     ELSE /\ conversations' = conversations \ {pk}
          /\ participants' = RowsWithoutConversation(participants, pk)
          /\ messages' = SelectSeq(messages, LAMBDA m : m.conversation # pk)
          /\ resp' = ChatResponse("destroy_conversation", 204, requester, pk, NoId)

\* DELETE users/<pk>/: get_object over the queryset of a user who is no
\* superuser, the user's own account; then the user is deleted with the
\* participant rows and the messages of the user (on_delete=CASCADE).
UserDestroy(requester, user_id) ==
  /\ ChatTick
  /\ requester \in accounts
  /\ UNCHANGED conversations
  /\ IF user_id # requester
     THEN /\ resp' = ChatResponse("destroy_user", 404, requester, NoId, user_id)
          /\ UNCHANGED <<participants, messages, accounts>>
     ELSE /\ accounts' = accounts \ {user_id}
          /\ participants' = [p \in DOMAIN participants |->
                              IF p[2] = user_id THEN 0 ELSE participants[p]]
          /\ messages' = SelectSeq(messages, LAMBDA m : m.sender # user_id)
          /\ resp' = ChatResponse("destroy_user", 204, requester, NoId, user_id)

\* POST users/ by an authenticated requester: UserSerializer.create makes
\* a user of data that is valid, with a new id.
UserCreate(requester, user_id, valid) ==
  /\ ChatTick
  /\ requester \in accounts
  /\ user_id \in ChatUsers \ accounts
  /\ UNCHANGED <<participants, messages, conversations>>
  /\ IF ~valid
     THEN /\ resp' = ChatResponse("create_user", 400, requester, NoId, NoId)
          /\ UNCHANGED accounts
     ELSE /\ accounts' = accounts \cup {user_id}
          /\ resp' = ChatResponse("create_user", 201, requester, NoId, user_id)

\* ------------------------------------------------- messages of the chats
\* The conversation ids of a request: "k0" is a well-formed id that no
\* conversation has; a request without a conversation carries NoId.
ConvIds == Convs \cup {"k0", NoId}

\* The message bodies of a request; a blank body is not valid.
Bodies == {"hello", ""}

\* A request without a message_body carries NoBody.
NoBody == "<none>"

NewMessageId(msgs) ==
  CHOOSE i \in 1..(Len(msgs) + 1) :
    /\ \A k \in DOMAIN msgs : msgs[k].message_id # i
    /\ \A j \in 1..(i - 1) : \E k \in DOMAIN msgs : msgs[k].message_id = j

\* MessageCreateSerializer.validate: the sender named by sender_id must be
\* a participant of the conversation.
validate(rows, sender, conversation) == IsParticipant(rows, conversation, sender)

\* serializer.is_valid() of MessageCreateSerializer: the fields are valid
\* and validate accepts them.
is_valid(rows, sender_id, conversation, message_body) ==
  /\ sender_id \in accounts
  /\ conversation \in conversations
  /\ message_body \notin {"", NoBody}
  /\ validate(rows, sender_id, conversation)

\* Variant of perform_create that keeps the sender of the request body.
perform_create_KeepSender(msgs, requester, sender_id, conversation, message_body) ==
  Append(msgs, [message_id |-> NewMessageId(msgs), sender |-> sender_id,
                conversation |-> conversation, message_body |-> message_body])

\* perform_create: serializer.save(sender=self.request.user) stores the
\* message with the requester as sender.
perform_create(msgs, requester, sender_id, conversation, message_body) ==
  Append(msgs, [message_id |-> NewMessageId(msgs), sender |-> requester,
                conversation |-> conversation, message_body |-> message_body])

\* The response of a message request, with the request it answers.
MessageAnswer(view, status, requester, message_id, sender_id, conversation, message_body) ==
  [view |-> view, status |-> status, requester |-> requester,
   message_id |-> message_id, pk |-> conversation, user_id |-> sender_id,
   body |-> message_body, seq |-> steps']

\* POST messages/ with sender_id, conversation and message_body in the
\* body, by an authenticated requester.
CreateMessage(requester, sender_id, conversation, message_body) ==
  /\ ChatTick
  /\ requester \in accounts
  /\ Len(messages) < MaxStored
  /\ UNCHANGED <<participants, accounts, conversations>>
  /\ IF ~is_valid(participants, sender_id, conversation, message_body)
     THEN /\ resp' = MessageAnswer("create_message", 400, requester, 0,
                                   sender_id, conversation, message_body)
          /\ UNCHANGED messages
     ELSE IF conversation # NoId /\ ~CanAccess(participants, requester, conversation)
     THEN /\ resp' = MessageAnswer("create_message", 404, requester, 0,
                                   sender_id, conversation, message_body)
          /\ UNCHANGED messages
     ELSE /\ messages' = perform_create(messages, requester, sender_id,
                                        conversation, message_body)
          /\ resp' = MessageAnswer("create_message", 201, requester, 0,
                                   sender_id, conversation, message_body)

\* MessageViewSet.get_queryset / get_object: the position of the message
\* with the id among the messages of the conversations the requester
\* participates in; 0 stands for Http404.
GetMessage(msgs, rows, requester, message_id) ==
  IF \E k \in DOMAIN msgs : /\ msgs[k].message_id = message_id
                             /\ IsParticipant(rows, msgs[k].conversation,
                                              requester)
  THEN CHOOSE k \in DOMAIN msgs : msgs[k].message_id = message_id
  ELSE 0

\* PUT messages/<id>/ with sender_id, conversation and message_body in the
\* body: get_object, then MessageCreateSerializer, whose save stores the
\* three fields as validated; perform_update sets no sender.
MessageUpdate(requester, message_id, sender_id, conversation, message_body) ==
  /\ ChatTick
  /\ requester \in accounts
  /\ UNCHANGED <<participants, accounts, conversations>>
  /\ LET k == GetMessage(messages, participants, requester, message_id)
     IN IF k = 0
        THEN /\ resp' = MessageAnswer("update_message", 404, requester,
                                      message_id, sender_id, conversation,
                                      message_body)
             /\ UNCHANGED messages
        ELSE IF ~is_valid(participants, sender_id, conversation, message_body)
        THEN /\ resp' = MessageAnswer("update_message", 400, requester,
                                      message_id, sender_id, conversation,
                                      message_body)
             /\ UNCHANGED messages
        ELSE /\ messages' = [messages EXCEPT
                               ![k] = [@ EXCEPT !.sender = sender_id,
                                                !.conversation = conversation,
                                                !.message_body = message_body]]
             /\ resp' = MessageAnswer("update_message", 200, requester,
                                      message_id, sender_id, conversation,
                                      message_body)

\* PATCH messages/<id>/ with any of sender_id, conversation and
\* message_body in the body: get_object, then MessageSerializer, which has
\* no validate; the fields of the body are stored.
MessagePartialUpdate(requester, message_id, sender_id, conversation, message_body) ==
  /\ ChatTick
  /\ requester \in accounts
  /\ UNCHANGED <<participants, accounts, conversations>>
  /\ LET k == GetMessage(messages, participants, requester, message_id)
     IN IF k = 0
        THEN /\ resp' = MessageAnswer("partial_update_message", 404, requester,
                                      message_id, sender_id, conversation,
                                      message_body)
             /\ UNCHANGED messages
        ELSE IF \/ sender_id # NoId /\ sender_id \notin accounts
                \/ conversation # NoId /\ conversation \notin conversations
                \/ message_body = ""
        THEN /\ resp' = MessageAnswer("partial_update_message", 400, requester,
                                      message_id, sender_id, conversation,
                                      message_body)
             /\ UNCHANGED messages
        ELSE /\ messages' = [messages EXCEPT
                               ![k] = [@ EXCEPT
                                 !.sender = IF sender_id = NoId THEN @
                                            ELSE sender_id,
                                 !.conversation = IF conversation = NoId THEN @
                                                  ELSE conversation,
                                 !.message_body = IF message_body = NoBody THEN @
                                                  ELSE message_body]]
             /\ resp' = MessageAnswer("partial_update_message", 200, requester,
                                      message_id, sender_id, conversation,
                                      message_body)

\* DELETE messages/<id>/: get_object, then the message is deleted.
MessageDestroy(requester, message_id) ==
  /\ ChatTick
  /\ requester \in accounts
  /\ UNCHANGED <<participants, accounts, conversations>>
  /\ LET k == GetMessage(messages, participants, requester, message_id)
     IN IF k = 0
        THEN /\ resp' = MessageAnswer("destroy_message", 404, requester,
                                      message_id, NoId, NoId, NoBody)
             /\ UNCHANGED messages
        ELSE /\ messages' = SelectSeq(messages,
                                      LAMBDA m : m.message_id # message_id)
             /\ resp' = MessageAnswer("destroy_message", 204, requester,
                                      message_id, NoId, NoId, NoBody)

\* ----------------------------------- concurrent remove_participant requests
\* removals[i] is a remove_participant request in flight: its requester,
\* conversation and user_id, its position pc in the handler, the number of
\* participants prefetched with the conversation, the status of its answer
\* and whether its delete removed a row.  The project sets no transaction
\* around a request, so every database query is a step of its own.
RemovalIds == {1, 2}

NewRemoval(requester, pk, user_id) ==
  [requester |-> requester, pk |-> pk, user_id |-> user_id,
   pc |-> "received", prefetched |-> 0, status |-> 0, deleted |-> FALSE]

\* A step of a request in flight leaves everything but the participants
\* and the requests alone.
RemovalFrame ==
  UNCHANGED <<users, db, nextId, notifs, hist, inst, req, resp, steps, cache,
              clock, sessions, query_cache, out, completed, messages,
              pages, retry, accounts, conversations>>

\* The request i is answered with the status.
Answered(i, status) ==
  removals' = [removals EXCEPT ![i].pc = "done", ![i].status = status]

\* self.get_object(): the query of get_queryset for the conversation pk
\* among the conversations of the requester; Http404 when there is none.
GetObject(i) ==
  /\ removals[i].pc = "received"
  /\ IF CanAccess(participants, removals[i].requester, removals[i].pk)
     THEN removals' = [removals EXCEPT ![i].pc = "found"]
     ELSE Answered(i, 404)
  /\ UNCHANGED participants
  /\ RemovalFrame

\* get_queryset's Prefetch('participants', ...): the query that loads the
\* participants of the conversation found; conversation.participants is
\* answered from these rows afterwards.
PrefetchParticipants(i) ==
  /\ removals[i].pc = "found"
  /\ removals' = [removals EXCEPT
                    ![i].pc = "prefetched",
                    ![i].prefetched = ParticipantCount(participants, removals[i].pk)]
  /\ UNCHANGED participants
  /\ RemovalFrame

\* Lines 122-139: 400 without a user_id; the query for the participant row
\* of the user, 404 when there is none, and a ValidationError (500) when
\* the user_id is not a UUID.
GetParticipant(i) ==
  /\ removals[i].pc = "prefetched"
  /\ IF removals[i].user_id = NoId
     THEN Answered(i, 400)
     ELSE IF removals[i].user_id = MalformedId
     THEN Answered(i, 500)
     ELSE IF \/ removals[i].user_id \notin ChatUsers
             \/ ~IsParticipant(participants, removals[i].pk, removals[i].user_id)
     THEN Answered(i, 404)
     ELSE removals' = [removals EXCEPT ![i].pc = "looked_up"]
  /\ UNCHANGED participants
  /\ RemovalFrame

\* Lines 141-153: 400 when conversation.participants.count() <= 1, counted
\* on the prefetched rows; otherwise participant.delete(), which deletes the
\* row when it is still there, and 200.
DeleteParticipant(i) ==
  /\ removals[i].pc = "looked_up"
  /\ IF removals[i].prefetched <= 1
     THEN /\ Answered(i, 400)
          /\ UNCHANGED participants
     ELSE /\ removals' = [removals EXCEPT
                            ![i].pc = "done", ![i].status = 200,
                            ![i].deleted =
                              participants[<<removals[i].pk, removals[i].user_id>>] >= 1]
          /\ participants' =
               [participants EXCEPT ![<<removals[i].pk, removals[i].user_id>>] = 0]
  /\ RemovalFrame

\* ------------------------------------------------------------ decorators
\* A call of a decorated function takes one of at most MaxCalls steps and
\* leaves the messages, the page cache and the conversations alone.
DecTick ==
  /\ steps < MaxCalls /\ steps' = steps + 1
  /\ UNCHANGED <<users, db, nextId, notifs, hist, inst, req, resp, cache,
                 clock, sessions, participants, messages, removals, pages,
                 accounts, conversations>>

\* What one invocation of a wrapped function does: it returns, raises an
\* Exception, or raises a BaseException that is not an Exception
\* (KeyboardInterrupt, SystemExit).
Outcomes == {"return", "Exception", "BaseException"}

\* No exception: last_exception = None.
NoException == 0

\* The call returns to its caller, or an exception reaches the caller:
\* the record of the finished call.
Finished(call, outcome, exception) ==
  [decorator |-> "retry_on_failure", retries |-> call.retries,
   delay |-> call.delay, behaviour |-> call.behaviour, calls |-> call.calls,
   slept |-> call.slept, outcome |-> outcome, exception |-> exception]

\* One pass of the loop of retry_on_failure.wrapper,
\*   for attempt in range(retries),
\* in which the invocation of func does what outcome says: the call as it
\* is when the wrapper next gives up the processor, in time.sleep(delay) or
\* for good.  The exception of the k-th invocation is identified by k.
\* After the loop the wrapper raises last_exception.
Attempt(call, outcome) ==
  LET c == [call EXCEPT !.calls = @ + 1, !.behaviour = Append(@, outcome)]
  IN IF outcome = "return"
     THEN [pc |-> "done", call |-> c, out |-> Finished(c, "returned", NoException)]
     ELSE IF outcome = "BaseException"
     THEN [pc |-> "done", call |-> c,
           out |-> Finished(c, "raised", c.attempt + 1)]
     ELSE IF c.attempt < c.retries - 1
     THEN [pc |-> "asleep",
           call |-> [c EXCEPT !.pc = "asleep", !.slept = @ + c.delay],
           out |-> NoOut]
     ELSE [pc |-> "done", call |-> c,
           out |-> Finished(c, "raised", c.attempt + 1)]

\* retry_on_failure(retries, delay)(func)() up to its first time.sleep:
\* with range(retries) empty the loop is skipped and raise last_exception
\* raises a TypeError, last_exception being None.
retry_on_failure(retries, delay, outcome) ==
  LET call == [NoCall EXCEPT !.retries = retries, !.delay = delay]
  IN IF retries <= 0
     THEN [pc |-> "done", call |-> call,
           out |-> Finished(call, "TypeError", NoException)]
     ELSE Attempt(call, outcome)

\* The thread k continues with the state res of its call: a finished call
\* leaves its record, a sleeping one keeps the thread.
RetryContinues(k, res) ==
  /\ retry' = [retry EXCEPT ![k] = IF res.pc = "done" THEN NoCall ELSE res.call]
  /\ out' = IF res.pc = "done" THEN res.out ELSE out
  /\ UNCHANGED <<query_cache, completed>>

\* A call of a function wrapped by retry_on_failure, by the thread k, up
\* to its first time.sleep(delay); outcome is what the first invocation of
\* the function does.
RetryCall(k, retries, delay, outcome) ==
  /\ DecTick
  /\ retry[k].pc = "idle"
  /\ \A j \in RetrySlots : j < k => retry[j].pc # "idle"
  /\ RetryContinues(k, retry_on_failure(retries, delay, outcome))

\* The thread k wakes from time.sleep(delay) and goes through the loop
\* once more.
RetryWakes(k, outcome) ==
  /\ DecTick
  /\ retry[k].pc = "asleep"
  /\ RetryContinues(k, Attempt([retry[k] EXCEPT !.attempt = @ + 1], outcome))

\* The query texts, and how a call passes its query.
Queries == {"SELECT * FROM users", "SELECT name FROM users"}

Passing == {"keyword", "positional"}

\* kwargs.get('query') of a call that has no keyword argument query.
NoneKey == "None"

\* fetch_users_with_cache's body: the rows cursor.execute(query) fetches.
fetchall(query) == [rows_of |-> query]

NoResult == [rows_of |-> "nothing"]

\* query = kwargs.get('query')
CacheKey(how, query) == IF how = "keyword" THEN query ELSE NoneKey

\* cache_query(func)(conn, query) or (conn, query=query) with the cache qc;
\* fails tells whether the execution of the query raises.
cache_query(qc, how, query, fails) ==
  LET key == CacheKey(how, query)
  IN IF key \in DOMAIN qc
     THEN [query_cache |-> qc, executed |-> FALSE, outcome |-> "returned",
           result |-> qc[key]]
     ELSE IF fails
     THEN [query_cache |-> qc, executed |-> TRUE, outcome |-> "raised",
           result |-> NoResult]
     ELSE [query_cache |->
             [k \in DOMAIN qc \cup {key} |->
                IF k = key THEN fetchall(query) ELSE qc[k]],
           executed |-> TRUE, outcome |-> "returned",
           result |-> fetchall(query)]

\* A call of fetch_users_with_cache: with_db_connection opens a connection,
\* calls the cached function and closes the connection.  completed collects
\* the query texts of the calls that returned.
CachedFetch(query, how, fails) ==
  LET res == cache_query(query_cache, how, query, fails)
  IN /\ DecTick
     /\ query_cache' = res.query_cache
     /\ completed' = IF res.outcome = "returned"
                     THEN completed \cup {query} ELSE completed
     /\ out' = [decorator |-> "cache_query", query |-> query, how |-> how,
                executed |-> res.executed, outcome |-> res.outcome,
                result |-> res.result, seq |-> steps']
     /\ UNCHANGED retry

\* Variant of Caught for a bare except clause.
Caught_Everything(kind) == TRUE

\* except Exception: the kinds of exception the clause handles.
Caught(kind) == kind = "Exception"

\* transactional(func)(db): begin, func, commit and rollback tell what the
\* call of db.begin, func, db.commit and db.rollback does.  trace lists the
\* calls made, in order; exception names the call whose exception reaches
\* the caller.
transactional(begin, func, commit, rollback) ==
  LET body == <<[name |-> "begin", does |-> begin],
                [name |-> "func", does |-> func],
                [name |-> "commit", does |-> commit]>>
      failing == {k \in 1..3 : body[k].does # "return"}
      first == CHOOSE k \in failing : \A j \in failing : k <= j
      made == [k \in 1..first |-> body[k].name]
  IN IF failing = {}
     THEN [trace |-> <<"begin", "func", "commit">>, outcome |-> "returned",
           exception |-> "none"]
     ELSE IF ~Caught(body[first].does)
     THEN [trace |-> made, outcome |-> "raised",
           exception |-> body[first].name]
     ELSE [trace |-> Append(made, "rollback"), outcome |-> "raised",
           exception |-> IF rollback = "return" THEN body[first].name
                         ELSE "rollback"]

\* A call of a function wrapped by transactional.
TransactionalCall(begin, func, commit, rollback) ==
  LET res == transactional(begin, func, commit, rollback)
  IN /\ DecTick
     /\ out' = [decorator |-> "transactional", begin |-> begin,
                func |-> func, commit |-> commit, rollback |-> rollback,
                trace |-> res.trace, outcome |-> res.outcome,
                exception |-> res.exception]
     /\ UNCHANGED <<query_cache, completed, retry>>

\* ------------------------------------------------------------ behaviours
Ids == 1..MaxMsgs

IdLists ==
  {<< >>} \cup {<<a>> : a \in Ids}
    \cup {<<p[1], p[2]>> : p \in {q \in Ids \X Ids : q[1] < q[2]}}

IdsArgs == {IdsArg(TRUE, << >>)} \cup {IdsArg(FALSE, l) : l \in IdLists}

Posted == {"", " ", "x"}

\* The operations on the models: new messages are created with the subject
\* "A", the content "x" and the default is_read, and the created instance is
\* kept in the first variable; either variable can hold a fetched instance.
Next ==
  \/ \E s \in Users, r \in Users, p \in {0} \cup Ids :
       Create("h1", s, r, <<"A">>, "x", FALSE, p)
  \/ \E h \in Handles, pk \in Ids : Load(h, pk)
  \/ \E h \in Handles, subj \in Subjects, c \in Contents, rd \in BOOLEAN :
       EditSave(h, subj, c, rd)
  \/ \E h \in Handles : MarkAsRead(h)
  \/ \E h \in Handles : MarkAsUnread(h)
  \/ \E u \in Users, arg \in IdsArgs : CallMarkAsRead(u, arg)
  \/ \E u \in Users : DeleteUser(u)

Spec == Init /\ [][Next]_vars

\* --------------------------------------------------- behaviours of the views
\* The requests start from a stored root message and its notification.
InitWeb ==
  /\ PagesInit /\ ChatsInit /\ DecoratorsInit
  /\ \E s \in Users, r \in Users :
       LET res == MessageSave([users |-> Users, db |-> << >>, nextId |-> 1,
                               notifs |-> << >>, hist |-> << >>],
                              NewInstance([db |-> << >>], s, r, <<"A">>, "x",
                                          FALSE, 0), "all")
       IN /\ users = res.w.users
          /\ db = res.w.db
          /\ nextId = res.w.nextId
          /\ notifs = res.w.notifs
          /\ hist = res.w.hist
  /\ inst = [h \in Handles |-> NoInst]
  /\ req = [k \in ReqSlots |-> Idle]
  /\ resp = NoResp
  /\ steps = 0

NextWeb ==
  \/ \E u \in Users, pk \in Ids : MessageThread(u, pk)
  \/ \E u \in Users, pk \in Ids, method \in {"GET", "POST"}, posted \in Posted :
       CreateReply(u, pk, method, posted)
  \/ \E u \in Users, pk \in Ids : ConversationThreadApi(u, pk)
  \/ \E u \in Users : UnreadMessagesApi(u)
  \/ \E u \in Users, pk \in Ids, xhr \in BOOLEAN : MarkMessageRead(u, pk, xhr)
  \/ \E k \in ReqSlots, u \in Users, xhr \in BOOLEAN : MarkAllReadPost(k, u, xhr)
  \/ \E k \in ReqSlots : MarkAllReadRespond(k)
  \/ \E u \in Users : MarkAllReadGet(u)

SpecWeb == InitWeb /\ [][NextWeb]_vars

\* ---------------------------------------------- behaviours of the cache
\* The URLs of the cached views; message 1 is stored, message 2 is not.
PageUrls ==
  {<<"conversation_list", 0>>, <<"unread_messages", 0>>, <<"inbox_summary", 0>>,
   <<"message_thread", 1>>, <<"message_thread", 2>>}

\* The time between two requests: a second, the timeout, or a second less
\* or more.
Delays == {1, CacheTimeout - 1, CacheTimeout, CacheTimeout + 1}

\* The requests: a GET of any URL with any cookie or none, or a POST to
\* the conversation list by a logged-in client.
PageRequests ==
  {<<url, "GET", cookie>> : url \in PageUrls,
                            cookie \in SessionCookies \cup {NoCookie}}
    \cup {<<<<"conversation_list", 0>>, "POST", cookie>> : cookie \in SessionCookies}

NextPages ==
  \/ \E k \in PageSlots, r \in PageRequests : CachedPage(k, r[1], r[2], r[3])
  \/ \E k \in PageSlots : ViewBodyRuns(k)
  \/ \E d \in Delays : Advance(d)
  \/ CacheClear
  \/ \E cookie \in SessionCookies : Logout(cookie)

\* The requests start from a stored message to the first user.
InitPages == InitWeb /\ db[1].receiver = "u1"

SpecPages == InitPages /\ [][NextPages]_vars

\* --------------------------------------- behaviours of the conversations
\* The requests start from conversations with any participants, one row
\* for a pair.
InitChats ==
  /\ PagesInit /\ DecoratorsInit
  /\ participants \in [Convs \X ChatUsers -> {0, 1}]
  /\ messages = << >>
  /\ removals = NoRemovals
  /\ accounts = ChatUsers
  /\ conversations = Convs
  /\ users = Users
  /\ db = << >>
  /\ nextId = 1
  /\ notifs = << >>
  /\ hist = << >>
  /\ inst = [h \in Handles |-> NoInst]
  /\ req = [k \in ReqSlots |-> Idle]
  /\ resp = NoResp
  /\ steps = 0

UserIds == ChatUsers \cup {UnknownId, MalformedId, NoId}

NextChats ==
  \/ \E requester \in ChatUsers, pk \in Convs, user_id \in UserIds :
       AddParticipant(requester, pk, user_id)
  \/ \E requester \in ChatUsers, pk \in Convs, user_id \in UserIds :
       RemoveParticipant(requester, pk, user_id)
  \/ \E requester \in ChatUsers, participant_ids \in ParticipantIds :
       ConversationCreate(requester, participant_ids)
  \/ \E requester \in ChatUsers, pk \in Convs,
        participant_ids \in ParticipantIds :
       ConversationUpdate(requester, pk, participant_ids)
  \/ \E requester \in ChatUsers, pk \in Convs :
       ConversationDestroy(requester, pk)
  \/ \E requester \in ChatUsers, user_id \in ChatUsers :
       UserDestroy(requester, user_id)
  \/ \E requester \in ChatUsers, user_id \in ChatUsers, valid \in BOOLEAN :
       UserCreate(requester, user_id, valid)

SpecChats == InitChats /\ [][NextChats]_vars

\* ----------------------------------------- behaviours of two removals
\* Two remove_participant requests on the conversation k1, which has any
\* participants, are in flight; their steps interleave in any order.
InitRace ==
  /\ PagesInit /\ DecoratorsInit
  /\ \E ps \in SUBSET ChatUsers :
       participants = [p \in Convs \X ChatUsers |->
                         IF p[1] = "k1" /\ p[2] \in ps THEN 1 ELSE 0]
  /\ \E requester \in [RemovalIds -> ChatUsers],
        user_id \in [RemovalIds -> ChatUsers \cup {MalformedId, NoId}] :
       removals = [i \in RemovalIds |->
                     NewRemoval(requester[i], "k1", user_id[i])]
  /\ messages = << >>
  /\ accounts = ChatUsers
  /\ conversations = Convs
  /\ users = Users
  /\ db = << >>
  /\ nextId = 1
  /\ notifs = << >>
  /\ hist = << >>
  /\ inst = [h \in Handles |-> NoInst]
  /\ req = [k \in ReqSlots |-> Idle]
  /\ resp = NoResp
  /\ steps = 0

NextRace ==
  \/ \E i \in RemovalIds : GetObject(i)
  \/ \E i \in RemovalIds : PrefetchParticipants(i)
  \/ \E i \in RemovalIds : GetParticipant(i)
  \/ \E i \in RemovalIds : DeleteParticipant(i)

SpecRace == InitRace /\ [][NextRace]_vars

\* ------------------------------------- behaviours of the chats' messages
\* Two requests to the messages, the conversations or the users, from a
\* conversation with any participants and one of the users b and c.
InitMessages ==
  /\ PagesInit /\ DecoratorsInit
  /\ \E ps \in SUBSET ChatUsers :
       participants = [p \in Convs \X ChatUsers |->
                         IF \/ p[1] = "k1" /\ p[2] \in ps
                            \/ p[1] = "k2" /\ p[2] \in {"b", "c"}
                         THEN 1 ELSE 0]
  /\ messages = << >>
  /\ removals = NoRemovals
  /\ accounts = ChatUsers
  /\ conversations = Convs
  /\ users = Users
  /\ db = << >>
  /\ nextId = 1
  /\ notifs = << >>
  /\ hist = << >>
  /\ inst = [h \in Handles |-> NoInst]
  /\ req = [k \in ReqSlots |-> Idle]
  /\ resp = NoResp
  /\ steps = MaxChatSteps - 2

NextMessages ==
  \/ \E requester \in ChatUsers, sender_id \in UserIds,
        conversation \in ConvIds, message_body \in Bodies :
       CreateMessage(requester, sender_id, conversation, message_body)
  \/ \E requester \in ChatUsers, message_id \in 1..MaxStored,
        sender_id \in UserIds, conversation \in ConvIds,
        message_body \in Bodies :
       MessageUpdate(requester, message_id, sender_id, conversation,
                     message_body)
  \/ \E requester \in ChatUsers, message_id \in 1..MaxStored,
        sender_id \in UserIds, conversation \in ConvIds,
        message_body \in Bodies \cup {NoBody} :
       MessagePartialUpdate(requester, message_id, sender_id, conversation,
                            message_body)
  \/ \E requester \in ChatUsers, message_id \in 1..MaxStored :
       MessageDestroy(requester, message_id)
  \/ \E requester \in ChatUsers, pk \in Convs, user_id \in UserIds :
       AddParticipant(requester, pk, user_id)
  \/ \E requester \in ChatUsers, pk \in Convs, user_id \in UserIds :
       RemoveParticipant(requester, pk, user_id)
  \/ \E requester \in ChatUsers, participant_ids \in ParticipantIds :
       ConversationCreate(requester, participant_ids)
  \/ \E requester \in ChatUsers, pk \in Convs,
        participant_ids \in ParticipantIds :
       ConversationUpdate(requester, pk, participant_ids)
  \/ \E requester \in ChatUsers, pk \in Convs :
       ConversationDestroy(requester, pk)
  \/ \E requester \in ChatUsers, user_id \in ChatUsers :
       UserDestroy(requester, user_id)
  \/ \E requester \in ChatUsers, user_id \in ChatUsers, valid \in BOOLEAN :
       UserCreate(requester, user_id, valid)

SpecMessages == InitMessages /\ [][NextMessages]_vars

\* ------------------------------------------ behaviours of the decorators
InitDecorators ==
  /\ PagesInit /\ ChatsInit /\ DecoratorsInit
  /\ users = Users
  /\ db = << >>
  /\ nextId = 1
  /\ notifs = << >>
  /\ hist = << >>
  /\ inst = [h \in Handles |-> NoInst]
  /\ req = [k \in ReqSlots |-> Idle]
  /\ resp = NoResp
  /\ steps = 0

\* The values of retries and delay, and what the invocations of the
\* wrapped function do.
RetryCounts == 0..MaxRetries

RetryDelays == {0, 2}

NextDecorators ==
  \/ \E k \in RetrySlots, retries \in RetryCounts, delay \in RetryDelays,
        outcome \in Outcomes : RetryCall(k, retries, delay, outcome)
  \/ \E k \in RetrySlots, outcome \in Outcomes : RetryWakes(k, outcome)
  \/ \E query \in Queries, how \in Passing, fails \in BOOLEAN :
       CachedFetch(query, how, fails)
  \/ \E begin \in Outcomes, func \in Outcomes, commit \in Outcomes,
        rollback \in Outcomes :
       TransactionalCall(begin, func, commit, rollback)

SpecDecorators == InitDecorators /\ [][NextDecorators]_vars

\* ------------------------------------------------- behaviours of a thread
ThreadIds == 1..MaxThread

\* The parent of every message of a stored forest: none, or an older message.
Forests == {f \in [ThreadIds -> 0..(MaxThread - 1)] : \A m \in ThreadIds : f[m] < m}

\* The rows after creating the messages k..MaxThread with the given
\* parents, senders and receivers.
RECURSIVE Stored(_, _, _, _, _)
Stored(w, k, par, snd, rcv) ==
  IF k > MaxThread THEN w
  ELSE Stored(MessageSave(w, NewInstance(w, snd[k], rcv[k], <<"A">>, "x",
                                         FALSE, par[k]), "all").w,
              k + 1, par, snd, rcv)

\* One request for a thread page is served on a stored forest of MaxThread
\* messages.
InitThread ==
  /\ PagesInit /\ ChatsInit /\ DecoratorsInit
  /\ \E par \in Forests, snd \in [ThreadIds -> Users], rcv \in [ThreadIds -> Users] :
       LET w == Stored([users |-> Users, db |-> << >>, nextId |-> 1,
                        notifs |-> << >>, hist |-> << >>], 1, par, snd, rcv)
       IN /\ users = w.users
          /\ db = w.db
          /\ nextId = w.nextId
          /\ notifs = w.notifs
          /\ hist = w.hist
  /\ inst = [h \in Handles |-> NoInst]
  /\ req = [k \in ReqSlots |-> Idle]
  /\ resp = NoResp
  /\ steps = MaxWebSteps - 1

NextThread ==
  \/ \E u \in Users, pk \in ThreadIds : MessageThread(u, pk)

SpecThread == InitThread /\ [][NextThread]_vars

\* ================================================================ claims
\* The notifications linked to message m, in the order of their creation.
NotifsOf(ns, m) == SelectSeq(ns, LAMBDA n : n.message = m)

\* The rows a step appended to a table.
Added(old, new) == SubSeq(new, Len(old) + 1, Len(new))

Created == nextId' # nextId

\* C1 (as claimed): every creation of a Message, root or reply, adds exactly
\* one Notification row, linked to that message.
C1_ExactlyOnePerCreation ==
  [][Created =>
       /\ Len(notifs') = Len(notifs) + 1
       /\ notifs'[Len(notifs')].message = nextId]_vars

\* C1 (amended): creating a root message adds exactly one Notification,
\* linked to the message, addressed to its receiver, of type 'message' and
\* unread; creating a reply adds a 'reply' notification for the sender of
\* the parent, preceded by a second notification for the reply's receiver
\* exactly when that receiver is not the parent's sender.
C1_NotificationsOnCreate ==
  [][Created =>
       LET m == nextId
           row == db'[m]
           added == Added(notifs, notifs')
       IN /\ SubSeq(notifs', 1, Len(notifs)) = notifs
          /\ \A k \in 1..Len(added) :
               added[k].message = m /\ ~added[k].is_read
          /\ IF row.parent = 0
             THEN /\ Len(added) = 1
                  /\ added[1].user = row.receiver
                  /\ added[1].notification_type = "message"
             ELSE /\ Len(added) =
                       IF row.receiver # db[row.parent].sender THEN 2 ELSE 1
                  /\ added[Len(added)].user = db[row.parent].sender
                  /\ added[Len(added)].notification_type = "reply"]_vars

\* A reply with two notifications and a root message with one are stored.
C1_Witness ==
  \E m \in DOMAIN db, r \in DOMAIN db :
    /\ db[m].parent = 0 /\ Len(NotifsOf(notifs, m)) = 1
    /\ db[r].parent = m /\ Len(NotifsOf(notifs, r)) = 2

\* A save of an instance whose row is stored.
UpdateSave ==
  \/ \E h \in Handles, subj \in Subjects, c \in Contents, rd \in BOOLEAN :
       EditSave(h, subj, c, rd)
  \/ \E h \in Handles : MarkAsRead(h)
  \/ \E h \in Handles : MarkAsUnread(h)

\* C2: saving an already stored Message adds no Notification row, also when
\* the save changes subject, content or is_read.
C2_NoNotificationOnUpdate ==
  [][UpdateSave => Len(notifs') = Len(notifs)]_vars

\* C3: a save adds a MessageHistory row only when the message is stored and
\* the saved subject or content differs from the stored one; creating a
\* message and mark_as_read / mark_as_unread add no history row.
C3_HistoryOnlyOnEdit ==
  [][/\ Created => hist' = hist
     /\ (\E h \in Handles : MarkAsRead(h) \/ MarkAsUnread(h)) => hist' = hist
     /\ Len(hist') > Len(hist) =>
          \E h \in Handles, subj \in Subjects, c \in Contents, rd \in BOOLEAN :
            /\ EditSave(h, subj, c, rd)
            /\ inst[h].pk \in DOMAIN db
            /\ inst'[h].subject # db[inst[h].pk].subject
                 \/ inst'[h].content # db[inst[h].pk].content]_vars

\* The stored subject or content of message m changes in this step.
TextChanged(m) ==
  db'[m].subject # db[m].subject \/ db'[m].content # db[m].content

\* C4: every save that changes the stored subject or content of a message
\* appends exactly one MessageHistory row, holding the subject and content
\* stored immediately before the save and the message's sender as edited_by;
\* so k successive edits append k rows, the i-th with the values before the
\* i-th edit.
C4_HistoryPerEdit ==
  [][\A m \in DOMAIN db \cap DOMAIN db' :
       TextChanged(m) =>
         hist' = Append(hist, [message |-> m,
                               old_subject |-> db[m].subject,
                               old_content |-> db[m].content,
                               edited_by |-> db[m].sender])]_vars

\* Two successive edits of one message left two history rows, each with the
\* values that preceded its edit.
C4_Witness ==
  /\ Len(hist) = 2
  /\ hist[1].message = hist[2].message
  /\ hist[1].message \in DOMAIN db
  /\ hist[1].old_subject # hist[2].old_subject
       \/ hist[1].old_content # hist[2].old_content
  /\ db[hist[2].message].subject # hist[2].old_subject
       \/ db[hist[2].message].content # hist[2].old_content

\* C5: every stored row references only users and messages that exist; so
\* after a user is deleted no message sent or received by that user, no
\* notification addressed to it and no history row edited by it remains.
C5_ReferentialIntegrity ==
  /\ \A m \in DOMAIN db :
       /\ db[m].sender \in users
       /\ db[m].receiver \in users
       /\ db[m].parent = 0 \/ db[m].parent \in DOMAIN db
  /\ \A k \in 1..Len(notifs) :
       notifs[k].user \in users /\ notifs[k].message \in DOMAIN db
  /\ \A k \in 1..Len(hist) :
       hist[k].edited_by \in users /\ hist[k].message \in DOMAIN db

\* A user was deleted, taking a message and its reply along, while a message
\* of the other user remains.
C5_Witness ==
  /\ users # Users
  /\ DOMAIN db # {}
  /\ Cardinality(DOMAIN db) + 2 <= nextId - 1

\* The stored rows after marking the messages of sel as read.
MarkedRead(d, sel) ==
  [m \in DOMAIN d |-> IF m \in sel THEN [d[m] EXCEPT !.is_read = TRUE] ELSE d[m]]

AllUnread == IdsArg(TRUE, << >>)

\* C6: mark-as-read is idempotent: a second manager mark_as_read(user)
\* directly after a first returns 0 and changes no row, and
\* Message.mark_as_read on a message that is already stored as read leaves
\* every stored row unchanged.  (unread_count_for_user is a query: it is an
\* operator of the stored rows and has no successor state.)
C6_MarkAsReadIdempotent ==
  [][/\ \A u \in users :
          LET first == ManagerMarkAsRead(World, u, AllUnread)
              second == ManagerMarkAsRead(first.w, u, AllUnread)
          IN second.ret = 0 /\ second.w = first.w
     /\ \A h \in Handles :
          (/\ MarkAsRead(h)
           /\ inst[h].pk \in DOMAIN db
           /\ db[inst[h].pk].is_read)
          => UNCHANGED <<users, db, notifs, hist>>]_vars

\* C7: mark_as_read(user, message_ids) with a list, the empty list included,
\* marks exactly the user's unread messages whose id is in the list and
\* returns their number; with None it marks all unread messages of the user.
C7_MarksListedOnly ==
  [][\A u \in Users, arg \in IdsArgs :
       CallMarkAsRead(u, arg) =>
         LET sel == IF arg.none THEN UnreadFor(World, u)
                    ELSE {m \in UnreadFor(World, u) : InList(m, arg.ids)}
         IN /\ db' = MarkedRead(db, sel)
            /\ resp'.count = Cardinality(sel)]_vars

\* C8: a new message has edited = False and last_edited = None, a save that
\* changes the stored subject or content leaves edited = True and last_edited
\* set, and no other step changes either field (so a message whose text never
\* changed stays unedited and an edited one is never reset).
C8_EditedFollowsText ==
  [][/\ \A m \in (DOMAIN db') \ (DOMAIN db) :
          ~db'[m].edited /\ db'[m].last_edited = NoTime
     /\ \A m \in DOMAIN db \cap DOMAIN db' :
          IF TextChanged(m)
          THEN db'[m].edited /\ db'[m].last_edited # NoTime
          ELSE /\ db'[m].edited = db[m].edited
               /\ db'[m].last_edited = db[m].last_edited]_vars

\* C9 (as claimed): when the response of a POST to mark_all_read is
\* produced the user has no unread received message and the returned
\* unread_count equals unread_count_for_user, whatever other requests did in
\* between (requests of other users are considered); a GET changes no message.
C9_CountIsCurrent ==
  [][/\ \A k \in ReqSlots :
          (MarkAllReadRespond(k) /\ ~req[k].own /\ req[k].user \in users) =>
            /\ UnreadFor(World, req[k].user) = {}
            /\ req[k].xhr =>
                 resp'.count = unread_count_for_user(World, req[k].user)
     /\ (\E u \in Users : MarkAllReadGet(u)) => db' = db]_vars

\* C9 (amended): the bulk update of a POST to mark_all_read leaves the
\* user with no unread received message; the response always carries
\* unread_count 0, which is unread_count_for_user at that moment whenever no
\* other write reached the message table since the update; a GET changes no
\* message.
C9_MarkAllRead ==
  [][/\ \A k \in ReqSlots, u \in Users, xhr \in BOOLEAN :
          MarkAllReadPost(k, u, xhr) =>
            /\ UnreadFor([db |-> db'], u) = {}
            /\ db' = MarkedRead(db, UnreadFor(World, u))
     /\ \A k \in ReqSlots :
          MarkAllReadRespond(k) =>
            /\ req[k].xhr => resp'.count = 0
            /\ req[k].clean =>
                 (req[k].user \in users => UnreadFor(World, req[k].user) = {})
            /\ (req[k].clean /\ req[k].xhr) =>
                 resp'.count = unread_count_for_user(World, req[k].user)
     /\ (\E u \in Users : MarkAllReadGet(u)) => db' = db]_vars

\* A POST marked at least one message and its JSON response was produced
\* with no write in between.
C9_Witness ==
  /\ resp.view = "mark_all_read"
  /\ resp.status = 200
  /\ resp.count = 0
  /\ resp.marked >= 1
  /\ \A u \in users : UnreadFor(World, u) = {}

\* The three views that address a message.
AddressedView(u, pk) ==
  \/ MessageThread(u, pk)
  \/ \E method \in {"GET", "POST"}, posted \in Posted :
       CreateReply(u, pk, method, posted)
  \/ ConversationThreadApi(u, pk)

\* C10: message_thread, create_reply and conversation_thread_api answer a
\* user who is neither sender nor receiver of the addressed message with
\* status 403, and a message id that does not exist with 404.
C10_DeniedIs403 ==
  [][\A u \in Users, pk \in Ids :
       AddressedView(u, pk) =>
         IF pk \notin DOMAIN db THEN resp'.status = 404
         ELSE NotParticipant(World, u, pk) => resp'.status = 403]_vars

\* The thread page of message pk was rendered for a participant.
ThreadShown(u, pk) ==
  /\ MessageThread(u, pk)
  /\ pk \in DOMAIN db
  /\ ~NotParticipant(World, u, pk)

\* The elements of a sequence.
Range(q) == {q[k] : k \in 1..Len(q)}

\* C11: get_conversation_thread(root) returns exactly root and every direct
\* or nested reply of it, at every depth of the parent_message chain.
C11_EntireThread ==
  [][\A u \in Users, pk \in ThreadIds :
       ThreadShown(u, pk) =>
         Range(resp'.context.thread_messages) = WithReplies(World, {pk})]_vars

\* The number of times message id is listed in a forest of entries.
RECURSIVE Occurrences(_, _)
Occurrences(forest, id) ==
  IF Len(forest) = 0 THEN 0
  ELSE (IF forest[1].message = id THEN 1 ELSE 0)
       + Occurrences(forest[1].replies, id)
       + Occurrences(Tail(forest), id)

\* C19: the tree of a thread page lists every message of the thread
\* exactly once, the messages without a parent at the top and every reply
\* in the 'replies' of its parent; the requested message is among them.
C19_TreeKeepsEveryMessage ==
  [][\A u \in Users, pk \in ThreadIds :
       ThreadShown(u, pk) =>
         LET c == resp'.context
         IN /\ \A m \in Range(c.thread_messages) :
                 Occurrences(c.thread_tree, m) = 1
            /\ Occurrences(c.thread_tree, pk) = 1
            /\ \A k \in 1..Len(c.thread_tree) :
                 db[c.thread_tree[k].message].parent = 0]_vars

\* The notifications of a sequence with the given type and addressee.
NotifsFor(ns, type, u) ==
  SelectSeq(ns, LAMBDA n : n.notification_type = type /\ n.user = u)

\* C20: creating a reply adds exactly one 'reply' Notification, addressed
\* to the sender of the parent message, plus exactly one 'message'
\* Notification addressed to the reply's receiver when that receiver is not
\* the parent's sender, and no other notification; all are linked to the reply.
C20_ReplyNotifications ==
  [][(Created /\ db'[nextId].parent # 0) =>
       LET r == db'[nextId]
           parentSender == db[r.parent].sender
           added == Added(notifs, notifs')
           direct == IF r.receiver # parentSender THEN 1 ELSE 0
       IN /\ SubSeq(notifs', 1, Len(notifs)) = notifs
          /\ Len(NotifsFor(added, "reply", parentSender)) = 1
          /\ Len(NotifsFor(added, "message", r.receiver)) = direct
          /\ Len(added) = 1 + direct
          /\ \A k \in 1..Len(added) : added[k].message = nextId]_vars

\* Two replies are stored: one whose receiver is the parent's sender, with
\* its single 'reply' notification, and one whose receiver is another user,
\* with a 'reply' and a 'message' notification.
C20_Witness ==
  \E a \in DOMAIN db, b \in DOMAIN db :
    /\ db[a].parent \in DOMAIN db /\ db[b].parent \in DOMAIN db
    /\ db[a].receiver = db[db[a].parent].sender
    /\ Len(NotifsOf(notifs, a)) = 1
    /\ NotifsOf(notifs, a)[1].notification_type = "reply"
    /\ db[b].receiver # db[db[b].parent].sender
    /\ Len(NotifsFor(NotifsOf(notifs, b), "reply", db[db[b].parent].sender)) = 1
    /\ Len(NotifsFor(NotifsOf(notifs, b), "message", db[b].receiver)) = 1

\* A step that answers a request to a cached view.
PageAnswered == "seq" \in DOMAIN resp' /\ resp'.seq = steps'

\* The key of the page stored for a GET of url with a session cookie.
StoredPage(url, cookie) == PageKey(url, "GET", <<"Cookie">>, cookie)

\* The seconds since the entry of a key was stored.
Age(key) == clock - (cache[key].expires - CacheTimeout)

\* A step that answers a request from the cache.
FromCache == PageAnswered /\ resp'.from_cache

\* A step in which the request taken by the worker k enters the view body,
\* and a step in which the view body of the worker k has run.
Entered(k) == pages[k].pc = "idle" /\ pages'[k].pc = "asleep"

BodyRan(k) == pages[k].pc = "asleep" /\ pages'[k].pc = "idle"

\* C12: a GET of a cached view is answered from the cache only while the
\* response stored for the same URL and cookie is at most 60 seconds old
\* and was not cleared; the answer then has the stored content, the view
\* body does not run and nothing is read or written.  A GET with the cookie
\* of a logged-in session enters the view body only without a stored
\* response less than 60 seconds old, so after expiry or cache.clear(), and
\* is answered from the cache otherwise; when the view body has run, its
\* 200 response is stored for the next 60 seconds.
C12_CachedWhileFresh ==
  [][/\ FromCache =>
          LET key == StoredPage(resp'.view, resp'.cookie)
          IN /\ resp'.method = "GET"
             /\ key \in DOMAIN cache
             /\ Age(key) <= CacheTimeout
             /\ resp'.content = cache[key].value.content
             /\ resp'.status = cache[key].value.status
             /\ ~resp'.ran
             /\ UNCHANGED <<db, notifs, hist, clock, cache, pages>>
     /\ (PageAnswered /\ ~resp'.ran /\ RequestUser(resp'.cookie) \in users) =>
          FromCache
     /\ \A k \in PageSlots :
          (Entered(k) /\ pages'[k].method = "GET") =>
            LET key == StoredPage(pages'[k].url, pages'[k].cookie)
            IN ~(key \in DOMAIN cache /\ Age(key) < CacheTimeout)
     /\ \A k \in PageSlots :
          BodyRan(k) =>
            LET key == StoredPage(pages[k].url, pages[k].cookie)
            IN /\ PageAnswered /\ resp'.ran /\ ~resp'.from_cache
               /\ resp'.view = pages[k].url /\ resp'.cookie = pages[k].cookie
               /\ (pages[k].method = "GET" /\ resp'.status = 200) =>
                    /\ key \in DOMAIN cache'
                    /\ cache'[key].value.content = resp'.content
                    /\ cache'[key].expires = clock' + CacheTimeout]_vars

\* A page rendered 59 seconds earlier was served from the cache.
C12_Witness ==
  /\ "from_cache" \in DOMAIN resp
  /\ resp.from_cache
  /\ resp.content.template = "conversation_list"
  /\ resp.content.data.cached_at + (CacheTimeout - 1) = clock

\* C13: a page served from the cache was rendered for the user of the
\* request's session, never for another user; a page rendered by a view
\* body was rendered for the user of the request; and a request without a
\* logged-in session (no cookie, or the cookie of a session that was logged
\* out) is redirected to the login page and receives no cached page.
C13_CachePerUser ==
  [][/\ FromCache =>
          /\ RequestUser(resp'.cookie) \in users
          /\ resp'.content.user = RequestUser(resp'.cookie)
     /\ \A k \in PageSlots :
          /\ Entered(k) => /\ RequestUser(pages'[k].cookie) \in users
                           /\ pages'[k].user = RequestUser(pages'[k].cookie)
          /\ (BodyRan(k) /\ resp'.status = 200) =>
               resp'.content.user = pages[k].user
     /\ (PageAnswered /\ RequestUser(resp'.cookie) = NoUser /\ ~resp'.ran) =>
          /\ ~resp'.from_cache
          /\ resp'.status = 302
          /\ UNCHANGED <<db, cache, pages>>]_vars

\* With the page of a URL rendered for one user fresh in the cache, the
\* request of another user for the URL was answered by the view body, with
\* the page of that user.
C13_Witness ==
  /\ "from_cache" \in DOMAIN resp
  /\ resp.ran /\ resp.status = 200
  /\ resp.cookie = "sid2"
  /\ resp.content.user = SessionUser["sid2"]
  /\ StoredPage(resp.view, "sid1") \in DOMAIN cache
  /\ StoredPage(resp.view, "sid2") \in DOMAIN cache
  /\ cache[StoredPage(resp.view, "sid1")].value.content.user
       = SessionUser["sid1"]
  /\ cache[StoredPage(resp.view, "sid1")].expires
       < cache[StoredPage(resp.view, "sid2")].expires

\* A step that answers an add_participant / a remove_participant request.
AddAnswered ==
  /\ "seq" \in DOMAIN resp' /\ resp'.seq = steps'
  /\ resp'.view = "add_participant"

RemoveAnswered ==
  /\ "seq" \in DOMAIN resp' /\ resp'.seq = steps'
  /\ resp'.view = "remove_participant"

\* C14 (as claimed): a remove_participant request of a participant on a
\* conversation that has one participant is answered with 400 and removes
\* nothing, and no request leaves a conversation that had participants
\* with none.
C14_LastParticipant400 ==
  [][/\ (/\ RemoveAnswered
          /\ CanAccess(participants, resp'.requester, resp'.pk)
          /\ ParticipantCount(participants, resp'.pk) = 1) =>
           (resp'.status = 400 /\ participants' = participants)
     /\ (AddAnswered \/ RemoveAnswered) =>
          \A c \in Convs :
            ParticipantCount(participants, c) >= 1 =>
              ParticipantCount(participants', c) >= 1]_vars

\* C14 (amended): a remove_participant request on a conversation that has
\* one participant removes nothing; it is answered with 400 when it names
\* that participant or no user, and with 404 when it names anyone else or
\* comes from a user who does not participate; a participant's request
\* whose user_id is not a well-formed id names nobody and removes nothing.
\* No add_participant or remove_participant request leaves a conversation
\* that had participants with none, and a removal removes one row.
C14_LastParticipantStays ==
  [][/\ (RemoveAnswered /\ ParticipantCount(participants, resp'.pk) = 1) =>
          /\ participants' = participants
          /\ IF ~CanAccess(participants, resp'.requester, resp'.pk)
             THEN resp'.status = 404
             ELSE IF resp'.user_id \in {resp'.requester, NoId}
             THEN resp'.status = 400
             ELSE resp'.user_id # MalformedId => resp'.status = 404
     /\ RemoveAnswered =>
          ParticipantCount(participants', resp'.pk)
            >= ParticipantCount(participants, resp'.pk) - 1
     /\ (AddAnswered \/ RemoveAnswered) =>
          \A c \in Convs :
            ParticipantCount(participants, c) >= 1 =>
              ParticipantCount(participants', c) >= 1]_vars

\* After a removal left a conversation with one participant, the removal
\* of that participant was refused with 400.
C14_Witness ==
  /\ "seq" \in DOMAIN resp
  /\ resp.view = "remove_participant"
  /\ resp.status = 400
  /\ resp.user_id = resp.requester
  /\ ParticipantCount(participants, resp.pk) = 1
  /\ participants[<<resp.pk, resp.requester>>] = 1
  /\ steps >= 2

\* C15: add_participant answers 400 when user_id is missing, 404 when no
\* user has that id and 400 when the user participates already, and
\* changes no row in these cases; otherwise it adds one row, for that user
\* and that conversation, and nothing else.  No (conversation, user) pair
\* has two rows.
C15_AddParticipant ==
  [][/\ AddAnswered =>
          LET c == resp'.pk
              u == resp'.user_id
          IN IF u = NoId
             THEN resp'.status = 400 /\ participants' = participants
             ELSE IF u \notin accounts
             THEN resp'.status = 404 /\ participants' = participants
             ELSE IF participants[<<c, u>>] >= 1
             THEN resp'.status = 400 /\ participants' = participants
             ELSE participants' = [participants EXCEPT ![<<c, u>>] = 1]
     /\ \A p \in Convs \X ChatUsers : participants'[p] <= 1]_vars

\* C16: a function wrapped by retry_on_failure(retries=n) that raises an
\* Exception on every call is invoked 1 + n times, and then its exception
\* reaches the caller.
C16_RetriedNTimes ==
  (/\ out.decorator = "retry_on_failure"
   /\ out.retries >= 1
   /\ \A k \in DOMAIN out.behaviour : out.behaviour[k] = "Exception") =>
    /\ out.calls = 1 + out.retries
    /\ out.outcome = "raised"

\* C17: a call of a function wrapped by cache_query executes the function
\* exactly when no earlier call that returned had the same query text,
\* however the query is passed, and a call that returns gets the result of
\* its own query.
C17_CachedPerQuery ==
  [][(/\ out'.decorator = "cache_query"
      /\ out'.seq = steps') =>
       /\ out'.executed <=> (out'.query \notin completed)
       /\ out'.outcome = "returned" => out'.result = fetchall(out'.query)]_vars

\* The number of calls of a db method in the trace of a call.
CallsOf(name) == Cardinality({k \in DOMAIN out.trace : out.trace[k] = name})

\* The wrapped function ran in the last call of a transactional function.
FuncRan == \E k \in DOMAIN out.trace : out.trace[k] = "func"

\* C18 (as claimed): a call of a transactional function calls begin first
\* and calls exactly one of commit and rollback: commit alone when the
\* function returns, rollback alone when it raises, and then the function's
\* exception reaches the caller.
C18_ExactlyOneOfCommitRollback ==
  out.decorator = "transactional" =>
    /\ out.trace[1] = "begin"
    /\ CallsOf("commit") + CallsOf("rollback") = 1
    /\ (FuncRan /\ out.func = "return") =>
         (CallsOf("commit") = 1 /\ CallsOf("rollback") = 0)
    /\ (FuncRan /\ out.func # "return") =>
         /\ CallsOf("commit") = 0 /\ CallsOf("rollback") = 1
         /\ out.outcome = "raised" /\ out.exception = "func"

\* C18 (amended): a call of a transactional function calls begin first and
\* runs the function only after begin returned.  When the function returns,
\* commit is called, and when commit returns too nothing else is called and
\* the call returns.  When begin, the function or commit raises an
\* Exception, nothing of the body follows, rollback is called once, after
\* commit when it was commit that raised, and the caller gets that
\* exception when rollback returns and rollback's own exception otherwise.
\* When one of them raises a BaseException that is not an Exception,
\* neither commit nor rollback follows and it reaches the caller.
C18_CommitOrRollback ==
  out.decorator = "transactional" =>
    /\ out.trace[1] = "begin"
    /\ FuncRan <=> out.begin = "return"
    /\ FuncRan => out.trace[2] = "func"
    /\ CallsOf("commit") = IF FuncRan /\ out.func = "return" THEN 1 ELSE 0
    /\ (FuncRan /\ out.func = "return" /\ out.commit = "return") =>
         /\ out.trace = <<"begin", "func", "commit">>
         /\ out.outcome = "returned"
    /\ (FuncRan /\ out.func = "Exception") =>
         /\ out.trace = <<"begin", "func", "rollback">>
         /\ out.outcome = "raised"
         /\ out.exception = IF out.rollback = "return" THEN "func"
                            ELSE "rollback"
    /\ (FuncRan /\ out.func = "BaseException") =>
         /\ out.trace = <<"begin", "func">>
         /\ out.outcome = "raised" /\ out.exception = "func"
    /\ (FuncRan /\ out.func = "return" /\ out.commit = "Exception") =>
         /\ out.trace = <<"begin", "func", "commit", "rollback">>
         /\ out.outcome = "raised"
         /\ out.exception = IF out.rollback = "return" THEN "commit"
                            ELSE "rollback"
    /\ (FuncRan /\ out.func = "return" /\ out.commit = "BaseException") =>
         /\ out.trace = <<"begin", "func", "commit">>
         /\ out.outcome = "raised" /\ out.exception = "commit"
    /\ out.begin = "Exception" =>
         /\ out.trace = <<"begin", "rollback">>
         /\ out.outcome = "raised"
         /\ out.exception = IF out.rollback = "return" THEN "begin"
                            ELSE "rollback"
    /\ out.begin = "BaseException" =>
         /\ out.trace = <<"begin">>
         /\ out.outcome = "raised" /\ out.exception = "begin"

\* The function returned, commit raised an Exception, and the call rolled
\* back and raised commit's exception.
C18_Witness ==
  /\ out.decorator = "transactional"
  /\ out.func = "return"
  /\ out.trace = <<"begin", "func", "commit", "rollback">>
  /\ out.exception = "commit"

\* A step that answers a request to create a message.
CreateAnswered ==
  /\ "seq" \in DOMAIN resp' /\ resp'.seq = steps'
  /\ resp'.view = "create_message"

\* The requester of the answered request participates in the conversation
\* the request names.
RequesterParticipates ==
  /\ resp'.pk \in Convs
  /\ participants[<<resp'.pk, resp'.requester>>] >= 1

\* The message the answered request asks for, sent by the requester.
RequestedMessage ==
  [message_id |-> NewMessageId(messages), sender |-> resp'.requester,
   conversation |-> resp'.pk, message_body |-> resp'.body]

\* C21 (as claimed): MessageViewSet.create stores a message with the
\* requester as sender, and only when the requester participates in the
\* conversation; a request of a requester who does not participate stores
\* nothing, and is answered with 404 when it names a conversation and a
\* user that exist and has a body.
C21_NotParticipant404 ==
  [][/\ (CreateAnswered /\ messages' # messages) =>
          /\ RequesterParticipates
          /\ messages' = Append(messages, RequestedMessage)
     /\ (CreateAnswered /\ ~RequesterParticipates) =>
          /\ messages' = messages
          /\ (/\ resp'.pk \in conversations
              /\ resp'.user_id \in accounts
              /\ resp'.body # "") => resp'.status = 404]_vars

\* C21 (amended): MessageViewSet.create stores a message with the
\* requester as sender whatever sender_id the body carries, and only when
\* the requester participates in the conversation.  A request of a
\* requester who does not participate stores nothing; it is answered with
\* 404 when its sender_id names a participant of the conversation and its
\* body is not blank, and with 400 otherwise.  A request of a participant
\* whose sender_id names a participant and whose body is not blank stores
\* one message and is answered with 201.
C21_SenderIsRequester ==
  [][/\ (CreateAnswered /\ messages' # messages) =>
          /\ RequesterParticipates
          /\ messages' = Append(messages, RequestedMessage)
     /\ CreateAnswered =>
          LET wellFormed == /\ resp'.pk \in conversations
                            /\ resp'.user_id \in accounts
                            /\ resp'.body # ""
                            /\ participants[<<resp'.pk, resp'.user_id>>] >= 1
          IN /\ ~RequesterParticipates =>
                  /\ messages' = messages
                  /\ resp'.status = IF wellFormed THEN 404 ELSE 400
             /\ (RequesterParticipates /\ wellFormed) =>
                  /\ messages' = Append(messages, RequestedMessage)
                  /\ resp'.status = 201
             /\ (RequesterParticipates /\ ~wellFormed) =>
                  /\ messages' = messages
                  /\ resp'.status = 400]_vars

\* A message was stored for a request whose sender_id named another
\* participant, with the requester as sender.
C21_Witness ==
  /\ "seq" \in DOMAIN resp
  /\ resp.view = "create_message"
  /\ resp.status = 201
  /\ resp.user_id # resp.requester
  /\ Len(messages) >= 1
  /\ messages[Len(messages)].sender = resp.requester
  /\ messages[Len(messages)].conversation = resp.pk

\* The two requests in flight name different users, and each of them found
\* the conversation k1 with two participants.
TwoRemovalsOfTwo ==
  /\ removals[1].user_id # removals[2].user_id
  /\ \A i \in RemovalIds :
       removals[i].pk = "k1" /\ removals[i].prefetched = 2

\* C22: when two remove_participant requests that name the two different
\* participants of a two-participant conversation are processed
\* concurrently, at most one of them deletes its participant and the
\* conversation keeps a participant, in every interleaving.
C22_AtMostOneRemoval ==
  TwoRemovalsOfTwo =>
    /\ ~(removals[1].deleted /\ removals[2].deleted)
    /\ ParticipantCount(participants, "k1") >= 1

====
